---- MODULE Spec2Model ----
(***************************************************************************)
(* Model of the Bioloid packet codec (src/src/Packet.h, src/src/Packet.cpp) *)
(* A Packet is a record of the private members of bioloid::Packet; every   *)
(* member function is an operator from a Packet (and its arguments) to the *)
(* Packet it leaves behind and the value it returns.  All members are      *)
(* uint8_t, so every sum is taken modulo 256.                              *)
(***************************************************************************)
EXTENDS Integers, Sequences, FiniteSets, TLC

(***************************************************************************)
(* Bounds of the exploration                                               *)
(***************************************************************************)
\* largest parameter capacity (maxParams) a Packet is constructed with
MaxCap == 2
\* longest run of bytes fed to processByte between two visits of IDLE
MaxWire == 8

(***************************************************************************)
(* Constants of the program                                                *)
(***************************************************************************)
ID_DEFAULT == 0
Command_PING == 1
Error_NONE == 0
Error_CHECKSUM == 16
Error_RANGE == 8
Error_NOT_DONE == 256
Error_TOO_MUCH_DATA == 258

\* uint8_t arithmetic
Byte == 0..255
Add8(a, b) == (a + b) % 256
Not8(a) == 255 - a

\* enum class State
State_IDLE == "IDLE"
State_FF_1ST_RCVD == "FF_1ST_RCVD"
State_FF_2ND_RCVD == "FF_2ND_RCVD"
State_ID_RCVD == "ID_RCVD"
State_LENGTH_RCVD == "LENGTH_RCVD"
State_COMMAND_RCVD == "COMMAND_RCVD"
State ==
    {State_IDLE, State_FF_1ST_RCVD, State_FF_2ND_RCVD, State_ID_RCVD,
     State_LENGTH_RCVD, State_COMMAND_RCVD}

\* NoStore: processByte wrote no byte of the parameter buffer
NoStore == -1

(***************************************************************************)
(* The Packet object                                                       *)
(***************************************************************************)
\* Packet::Packet(maxParams, params): the caller's buffer holds maxParams
\* bytes, params[0 .. maxParams-1]; the members take their default values.
Packet(maxParams, params) ==
    [m_state |-> State_IDLE,
     m_maxParams |-> maxParams,
     m_params |-> params,
     m_id |-> ID_DEFAULT,
     m_length |-> 2,
     m_cmd |-> Command_PING,
     m_paramIdx |-> 0,
     m_checksum |-> 0]

\* numParams without the test for a length below 2: length - 2 as uint8_t
numParams_Wrap(p) == (p.m_length + 254) % 256

\* Packet::numParams()
numParams(p) == IF p.m_length <= 2 THEN 0 ELSE p.m_length - 2

\* m_params[i] = b: a write of byte b at index i of the caller's memory,
\* inside the buffer or not
StoreParam(mem, i, b) ==
    [j \in (DOMAIN mem) \cup {i} |-> IF j = i THEN b ELSE mem[j]]

\* what one call of processByte leaves: the packet, the value returned and
\* the index of the parameter buffer it wrote (NoStore when none)
Ret(p, e, s) == [pkt |-> p, err |-> e, store |-> s]

\* CaseIdle that clears the running checksum when a frame may start
CaseIdle_Reset(p, byte) ==
    IF byte = 255
    THEN Ret([p EXCEPT !.m_state = State_FF_1ST_RCVD, !.m_checksum = 0],
             Error_NOT_DONE, NoStore)
    ELSE Ret(p, Error_NOT_DONE, NoStore)

\* case State::IDLE
CaseIdle(p, byte) ==
    IF byte = 255
    THEN Ret([p EXCEPT !.m_state = State_FF_1ST_RCVD], Error_NOT_DONE, NoStore)
    ELSE Ret(p, Error_NOT_DONE, NoStore)

\* CaseFf1stRcvd that keeps waiting for the second 0xFF after another byte
CaseFf1stRcvd_NoResync(p, byte) ==
    IF byte = 255
    THEN Ret([p EXCEPT !.m_state = State_FF_2ND_RCVD], Error_NOT_DONE, NoStore)
    ELSE Ret(p, Error_NOT_DONE, NoStore)

\* CaseFf1stRcvd that takes any byte for the second sync byte
CaseFf1stRcvd_AnyByte(p, byte) ==
    Ret([p EXCEPT !.m_state = State_FF_2ND_RCVD], Error_NOT_DONE, NoStore)

\* case State::FF_1ST_RCVD
CaseFf1stRcvd(p, byte) ==
    IF byte = 255
    THEN Ret([p EXCEPT !.m_state = State_FF_2ND_RCVD], Error_NOT_DONE, NoStore)
    ELSE Ret([p EXCEPT !.m_state = State_IDLE], Error_NOT_DONE, NoStore)

\* CaseFf2ndRcvd that takes a repeated 0xFF as the first sync byte again
CaseFf2ndRcvd_Restart(p, byte) ==
    IF byte = 255
    THEN Ret([p EXCEPT !.m_state = State_FF_1ST_RCVD], Error_NOT_DONE, NoStore)
    ELSE Ret([p EXCEPT !.m_id = byte,
                       !.m_checksum = byte,
                       !.m_state = State_ID_RCVD],
             Error_NOT_DONE, NoStore)

\* CaseFf2ndRcvd without the test for a repeated 0xFF
CaseFf2ndRcvd_NoAbsorb(p, byte) ==
    Ret([p EXCEPT !.m_id = byte,
                  !.m_checksum = byte,
                  !.m_state = State_ID_RCVD],
        Error_NOT_DONE, NoStore)

\* CaseFf2ndRcvd that adds the id to the checksum of the frame before
CaseFf2ndRcvd_AddSum(p, byte) ==
    IF byte = 255
    THEN Ret([p EXCEPT !.m_state = State_FF_2ND_RCVD], Error_NOT_DONE, NoStore)
    ELSE Ret([p EXCEPT !.m_id = byte,
                       !.m_checksum = Add8(p.m_checksum, byte),
                       !.m_state = State_ID_RCVD],
             Error_NOT_DONE, NoStore)

\* case State::FF_2ND_RCVD
CaseFf2ndRcvd(p, byte) ==
    IF byte = 255
    THEN Ret([p EXCEPT !.m_state = State_FF_2ND_RCVD], Error_NOT_DONE, NoStore)
    ELSE Ret([p EXCEPT !.m_id = byte,
                       !.m_checksum = byte,
                       !.m_state = State_ID_RCVD],
             Error_NOT_DONE, NoStore)

\* CaseIdRcvd that leaves the length byte out of the running sum
CaseIdRcvd_NoSum(p, byte) ==
    Ret([p EXCEPT !.m_length = byte,
                  !.m_state = State_LENGTH_RCVD],
        Error_NOT_DONE, NoStore)

\* CaseIdRcvd that takes a 0xFF for the start of another frame
CaseIdRcvd_Resync(p, byte) ==
    IF byte = 255
    THEN Ret([p EXCEPT !.m_state = State_FF_1ST_RCVD], Error_NOT_DONE, NoStore)
    ELSE Ret([p EXCEPT !.m_length = byte,
                       !.m_checksum = Add8(p.m_checksum, byte),
                       !.m_state = State_LENGTH_RCVD],
             Error_NOT_DONE, NoStore)

\* case State::ID_RCVD
CaseIdRcvd(p, byte) ==
    Ret([p EXCEPT !.m_length = byte,
                  !.m_checksum = Add8(p.m_checksum, byte),
                  !.m_state = State_LENGTH_RCVD],
        Error_NOT_DONE, NoStore)

\* CaseLengthRcvd that leaves the parameter index of the frame before
CaseLengthRcvd_KeepIdx(p, byte) ==
    Ret([p EXCEPT !.m_cmd = byte,
                  !.m_checksum = Add8(p.m_checksum, byte),
                  !.m_state = State_COMMAND_RCVD],
        Error_NOT_DONE, NoStore)

\* case State::LENGTH_RCVD
CaseLengthRcvd(p, byte) ==
    Ret([p EXCEPT !.m_cmd = byte,
                  !.m_checksum = Add8(p.m_checksum, byte),
                  !.m_paramIdx = 0,
                  !.m_state = State_COMMAND_RCVD],
        Error_NOT_DONE, NoStore)

\* Finalize that keeps the computed checksum when the received one differs
Finalize_KeepComputed(p, byte) ==
    LET sum == Not8(p.m_checksum) IN
    IF sum = byte
    THEN Ret([p EXCEPT !.m_checksum = sum, !.m_state = State_IDLE],
             IF p.m_paramIdx <= p.m_maxParams
             THEN Error_NONE ELSE Error_TOO_MUCH_DATA,
             NoStore)
    ELSE Ret([p EXCEPT !.m_checksum = sum, !.m_state = State_IDLE],
             Error_CHECKSUM, NoStore)

\* Finalize that tests the capacity with < instead of <=
Finalize_StrictCapacity(p, byte) ==
    LET sum == Not8(p.m_checksum) IN
    IF sum = byte
    THEN Ret([p EXCEPT !.m_checksum = sum, !.m_state = State_IDLE],
             IF p.m_paramIdx < p.m_maxParams
             THEN Error_NONE ELSE Error_TOO_MUCH_DATA,
             NoStore)
    ELSE Ret([p EXCEPT !.m_checksum = byte, !.m_state = State_IDLE],
             Error_CHECKSUM, NoStore)

\* Finalize that reports an overlong frame with the status bit RANGE
Finalize_Range(p, byte) ==
    LET sum == Not8(p.m_checksum) IN
    IF sum = byte
    THEN Ret([p EXCEPT !.m_checksum = sum, !.m_state = State_IDLE],
             IF p.m_paramIdx <= p.m_maxParams
             THEN Error_NONE ELSE Error_RANGE,
             NoStore)
    ELSE Ret([p EXCEPT !.m_checksum = byte, !.m_state = State_IDLE],
             Error_CHECKSUM, NoStore)

\* Finalize that leaves the state alone when the checksum differs
Finalize_StayOnError(p, byte) ==
    LET sum == Not8(p.m_checksum) IN
    IF sum = byte
    THEN Ret([p EXCEPT !.m_checksum = sum, !.m_state = State_IDLE],
             IF p.m_paramIdx <= p.m_maxParams
             THEN Error_NONE ELSE Error_TOO_MUCH_DATA,
             NoStore)
    ELSE Ret([p EXCEPT !.m_checksum = byte], Error_CHECKSUM, NoStore)

\* case State::COMMAND_RCVD, m_paramIdx >= numParams(): byte is the checksum
Finalize(p, byte) ==
    LET sum == Not8(p.m_checksum) IN
    IF sum = byte
    THEN Ret([p EXCEPT !.m_checksum = sum, !.m_state = State_IDLE],
             IF p.m_paramIdx <= p.m_maxParams
             THEN Error_NONE ELSE Error_TOO_MUCH_DATA,
             NoStore)
    ELSE Ret([p EXCEPT !.m_checksum = byte, !.m_state = State_IDLE],
             Error_CHECKSUM, NoStore)

\* StoreByte without the test of the index against the capacity
StoreByte_Unguarded(p, byte) ==
    Ret([p EXCEPT !.m_checksum = Add8(p.m_checksum, byte),
                  !.m_params = StoreParam(p.m_params, p.m_paramIdx, byte),
                  !.m_paramIdx = (p.m_paramIdx + 1) % 256],
        Error_NOT_DONE, p.m_paramIdx)

\* case State::COMMAND_RCVD, m_paramIdx < numParams(): byte is a parameter
StoreByte(p, byte) ==
    Ret([p EXCEPT !.m_checksum = Add8(p.m_checksum, byte),
                  !.m_params = IF p.m_paramIdx < p.m_maxParams
                               THEN StoreParam(p.m_params, p.m_paramIdx, byte)
                               ELSE p.m_params,
                  !.m_paramIdx = (p.m_paramIdx + 1) % 256],
        Error_NOT_DONE,
        IF p.m_paramIdx < p.m_maxParams THEN p.m_paramIdx ELSE NoStore)

\* case State::COMMAND_RCVD
CaseCommandRcvd(p, byte) ==
    IF p.m_paramIdx >= numParams(p)
    THEN Finalize(p, byte)
    ELSE StoreByte(p, byte)

\* Packet::processByte(byte)
processByte(p, byte) ==
    CASE p.m_state = State_IDLE -> CaseIdle(p, byte)
      [] p.m_state = State_FF_1ST_RCVD -> CaseFf1stRcvd(p, byte)
      [] p.m_state = State_FF_2ND_RCVD -> CaseFf2ndRcvd(p, byte)
      [] p.m_state = State_ID_RCVD -> CaseIdRcvd(p, byte)
      [] p.m_state = State_LENGTH_RCVD -> CaseLengthRcvd(p, byte)
      [] p.m_state = State_COMMAND_RCVD -> CaseCommandRcvd(p, byte)
      [] OTHER -> Ret(p, Error_NOT_DONE, NoStore)

(***************************************************************************)
(* Building and serialising a Packet                                       *)
(***************************************************************************)
\* Packet::id(ID::Type id)
id(p, v) == [p EXCEPT !.m_id = v]

\* Packet::command(Command::Type cmd)
command(p, cmd) == [p EXCEPT !.m_cmd = cmd]

Min(a, b) == IF a <= b THEN a ELSE b

\* paramsAssert of a build without assertions
paramsAssert_Off(p, n) == TRUE

\* the assertion of both Packet::params: the call aborts when it fails
paramsAssert(p, n) == n <= p.m_maxParams

\* Packet::params(size_t numParams)
paramsCount(p, n) ==
    [p EXCEPT !.m_length = (2 + Min(n % 256, p.m_maxParams)) % 256]

\* Packet::params(size_t numParams, const void* params): bytes holds the
\* caller's parameters bytes[0 .. n-1]
params(p, n, bytes) ==
    LET k == IF n >= p.m_maxParams THEN p.m_maxParams ELSE n IN
    [p EXCEPT !.m_params = [i \in DOMAIN p.m_params |->
                               IF i < k THEN bytes[i] ELSE p.m_params[i]],
              !.m_length = (2 + Min(k % 256, p.m_maxParams)) % 256]

\* m_params[i] as update_checksum reads it: a byte of the buffer, or, at an
\* index outside the buffer, whatever byte wild the memory there holds
ParamAt(p, i, wild) == IF i \in DOMAIN p.m_params THEN p.m_params[i] ELSE wild

RECURSIVE SumRange(_, _, _, _)
\* m_params[lo] + .. + m_params[hi-1], the range halved at each level
SumRange(p, lo, hi, wild) ==
    IF hi <= lo THEN 0
    ELSE IF hi = lo + 1 THEN ParamAt(p, lo, wild)
    ELSE LET mid == (lo + hi) \div 2 IN
             SumRange(p, lo, mid, wild) + SumRange(p, mid, hi, wild)

\* the loop of update_checksum: m_params[0] + .. + m_params[n-1]
SumParams(p, n, wild) == SumRange(p, 0, n, wild)

\* update_checksum that leaves the length byte out of the sum
update_checksum_NoLength(p, wild) ==
    [p EXCEPT !.m_checksum =
        Not8((p.m_id + p.m_cmd + SumParams(p, numParams(p), wild)) % 256)]

\* update_checksum that negates the sum instead of complementing it
update_checksum_Negated(p, wild) ==
    [p EXCEPT !.m_checksum =
        (256 - ((p.m_id + p.m_length + p.m_cmd
                 + SumParams(p, numParams(p), wild)) % 256)) % 256]

\* Packet::update_checksum()
update_checksum(p, wild) ==
    [p EXCEPT !.m_checksum =
        Not8((p.m_id + p.m_length + p.m_cmd
              + SumParams(p, numParams(p), wild)) % 256)]

\* the first n elements of s
Take(s, n) == SubSeq(s, 1, Min(n, Len(s)))

RECURSIVE DataParams_Break(_, _, _, _)
\* DataParams that leaves the loop, instead of the function, at the capacity
DataParams_Break(p, maxLen, out, idx) ==
    IF idx >= numParams(p) THEN [out |-> out, returned |-> FALSE]
    ELSE IF idx >= p.m_maxParams THEN [out |-> out, returned |-> FALSE]
    ELSE IF Len(out) < maxLen
         THEN DataParams_Break(p, maxLen, Append(out, p.m_params[idx]), idx + 1)
         ELSE [out |-> out, returned |-> FALSE]

RECURSIVE DataParams(_, _, _, _)
\* the parameter loop of Packet::data from index idx on, out being the bytes
\* written so far: the bytes written and whether the loop returned
DataParams(p, maxLen, out, idx) ==
    IF idx >= numParams(p) THEN [out |-> out, returned |-> FALSE]
    ELSE IF idx >= p.m_maxParams THEN [out |-> out, returned |-> TRUE]
    ELSE IF Len(out) < maxLen
         THEN DataParams(p, maxLen, Append(out, p.m_params[idx]), idx + 1)
         ELSE [out |-> out, returned |-> FALSE]

\* data that sums the fields afresh for the checksum byte
data_Recompute(p, maxLen) ==
    LET head == Take(<<255, 255, p.m_id, p.m_length, p.m_cmd>>, maxLen)
        body == DataParams(p, maxLen, head, 0)
    IN  IF body.returned THEN body.out
        ELSE IF Len(body.out) < maxLen
             THEN Append(body.out, update_checksum(p, 0).m_checksum)
             ELSE body.out

\* data that writes the checksum byte without testing for room
data_ChecksumAlways(p, maxLen) ==
    LET head == Take(<<255, 255, p.m_id, p.m_length, p.m_cmd>>, maxLen)
        body == DataParams(p, maxLen, head, 0)
    IN  IF body.returned THEN body.out ELSE Append(body.out, p.m_checksum)

\* Packet::data(maxLen, data): the bytes written to data[0 .. len-1], len
\* being the value returned
data(p, maxLen) ==
    LET head == Take(<<255, 255, p.m_id, p.m_length, p.m_cmd>>, maxLen)
        body == DataParams(p, maxLen, head, 0)
    IN  IF body.returned THEN body.out
        ELSE IF Len(body.out) < maxLen
             THEN Append(body.out, p.m_checksum)
             ELSE body.out

(***************************************************************************)
(* The frame a run of wire bytes spells, read off the wire format          *)
(*     FF FF ID LEN CMD PARAM_0 .. PARAM_{LEN-3} CHECKSUM                  *)
(***************************************************************************)
RECURSIVE LeadFF(_)
\* the number of leading 0xFF bytes of w
LeadFF(w) == IF w # << >> /\ Head(w) = 255 THEN 1 + LeadFF(Tail(w)) ELSE 0

WireId(w) == w[LeadFF(w) + 1]
WireLength(w) == w[LeadFF(w) + 2]
WireCommand(w) == w[LeadFF(w) + 3]
\* the declared parameter count
WireCount(w) == IF WireLength(w) <= 2 THEN 0 ELSE WireLength(w) - 2
\* parameter i, counted from 0
WireParam(w, i) == w[LeadFF(w) + 4 + i]
WireChecksum(w) == w[Len(w)]

\* w is the sync bytes and one whole frame, checksum byte included
WholeFrame(w) ==
    /\ LeadFF(w) >= 2
    /\ Len(w) >= LeadFF(w) + 4
    /\ Len(w) = LeadFF(w) + 4 + WireCount(w)

RECURSIVE SumTo(_, _, _)
\* the sum of w[from .. to]
SumTo(w, from, to) == IF from > to THEN 0 ELSE w[from] + SumTo(w, from + 1, to)

\* the checksum the wire format gives the frame: NOT of the 8-bit sum of
\* id, length, command and every parameter
FrameChecksum(w) == 255 - (SumTo(w, LeadFF(w) + 1, Len(w) - 1) % 256)

(***************************************************************************)
(* The parser fed from a serial line                                       *)
(***************************************************************************)
VARIABLES
    packet,     \* the Packet that parses
    wire,       \* the bytes fed since processByte was last called in IDLE
    errs,       \* what processByte returned for each byte of wire
    lastStore,  \* the buffer index written by the last call, or NoStore
    peer,       \* a second Packet: the one serialised, or one fed alongside
    peerErrs,   \* what processByte returned for each byte fed to peer
    noise,      \* the bytes fed to peer alone
    line,       \* the bytes Packet::data wrote
    maxLen,     \* the size of the buffer handed to Packet::data
    fed,        \* the number of bytes fed so far
    pc,         \* the step the caller is at
    call,       \* the last call made on the object under test
    table,      \* the control table
    port,       \* the bit rates the table handed to its port
    storage,    \* the bytes the table's storage holds
    saved       \* the bytes handed to the last save, if it succeeded

vars == <<packet, wire, errs, lastStore, peer, peerErrs, noise, line, maxLen,
          fed, pc, call, table, port, storage, saved>>
\* the variables of the parser, those of the calls on an object under test,
\* and the others
parserVars == <<packet, wire, errs, lastStore>>
apiVars == <<call, table, port, storage, saved>>
otherVars == <<peer, peerErrs, noise, line, maxLen, fed, pc, apiVars>>

\* the values a caller's buffer holds before the parser writes it
BufFill == {85}
\* the byte values the line carries
LineBytes == {0, 2, 3, 4, 255}

\* w lacks only its checksum byte to be the sync bytes and a whole frame
ChecksumDue(w) ==
    /\ LeadFF(w) >= 2
    /\ Len(w) >= LeadFF(w) + 3
    /\ Len(w) = LeadFF(w) + 3 + WireCount(w)

\* the bytes the line may carry next: a line byte, or the checksum the wire
\* format gives the frame sent so far
NextBytes ==
    LineBytes \cup
    (IF packet.m_state # State_IDLE /\ ChecksumDue(wire)
     THEN {255 - (SumTo(wire, LeadFF(wire) + 1, Len(wire)) % 256)} ELSE {})

\* a caller's buffer of cap bytes
Buffer(cap, fill) == [i \in 0..(cap - 1) |-> fill]

\* no call made yet on an object under test; made counts the calls that
\* change the object
NoCall == [op |-> "none", made |-> 0]
\* no control table constructed
NoTable == [m_numCtlBytes |-> 0, m_numPersistentBytes |-> 0,
            m_ctlBytes |-> << >>]

\* no save of the table succeeded
NoSave == [valid |-> FALSE, data |-> << >>]

\* nothing fed yet
NothingFed ==
    /\ wire = << >>
    /\ errs = << >>
    /\ lastStore = NoStore
    /\ peerErrs = << >>
    /\ noise = << >>
    /\ line = << >>
    /\ maxLen = 0
    /\ fed = 0
    /\ call = NoCall
    /\ table = NoTable
    /\ storage = << >>
    /\ saved = NoSave
    /\ port = << >>

Init ==
    /\ \E cap \in 0..MaxCap, fill \in BufFill :
           packet = Packet(cap, Buffer(cap, fill))
    /\ peer = Packet(0, Buffer(0, 0))
    /\ NothingFed
    /\ pc = "parse"

\* one call packet.processByte(byte), and the record of it
Feed(byte) ==
    /\ packet.m_state = State_IDLE \/ Len(wire) < MaxWire
    /\ LET r == processByte(packet, byte) IN
           /\ packet' = r.pkt
           /\ lastStore' = r.store
           /\ wire' = IF packet.m_state = State_IDLE
                      THEN <<byte>> ELSE Append(wire, byte)
           /\ errs' = IF packet.m_state = State_IDLE
                      THEN <<r.err>> ELSE Append(errs, r.err)

\* the parser is fed one byte of the line
ProcessByte(byte) ==
    /\ Feed(byte)
    /\ UNCHANGED otherVars

Next == \E byte \in NextBytes : ProcessByte(byte)

Spec == Init /\ [][Next]_vars

(***************************************************************************)
(* A frame built in one Packet, serialised and parsed by another           *)
(***************************************************************************)
\* largest buffer handed to Packet::data
MaxLen == 9
\* the byte values a caller sets as id, command and parameters
FieldBytes == {1, 3, 255}
\* the byte an out-of-buffer read may find
WildBytes == {0, 255}

InitRoundTrip ==
    /\ \E cap \in 0..MaxCap, fill \in BufFill :
           packet = Packet(cap, Buffer(cap, fill))
    /\ \E cap \in 0..MaxCap, fill \in BufFill :
           peer = Packet(cap, Buffer(cap, fill))
    /\ NothingFed
    /\ pc = "build"

\* peer.id(v)
SetId(v) ==
    /\ pc = "build"
    /\ peer' = id(peer, v)
    /\ UNCHANGED <<parserVars, peerErrs, noise, line, maxLen, fed, pc, apiVars>>

\* peer.command(cmd)
SetCommand(cmd) ==
    /\ pc = "build"
    /\ peer' = command(peer, cmd)
    /\ UNCHANGED <<parserVars, peerErrs, noise, line, maxLen, fed, pc, apiVars>>

\* peer.params(n), its assertion holding
SetParamCount(n) ==
    /\ pc = "build"
    /\ paramsAssert(peer, n)
    /\ peer' = paramsCount(peer, n)
    /\ UNCHANGED <<parserVars, peerErrs, noise, line, maxLen, fed, pc, apiVars>>

\* peer.params(n, bytes), its assertion holding
SetParams(n, bytes) ==
    /\ pc = "build"
    /\ paramsAssert(peer, n)
    /\ peer' = params(peer, n, bytes)
    /\ UNCHANGED <<parserVars, peerErrs, noise, line, maxLen, fed, pc, apiVars>>

\* peer.update_checksum()
UpdateChecksum(wild) ==
    /\ pc = "build"
    /\ peer' = update_checksum(peer, wild)
    /\ pc' = "summed"
    /\ UNCHANGED <<parserVars, peerErrs, noise, line, maxLen, fed, apiVars>>

\* peer.data(n, buf), after update_checksum() or without it
Serialise(n) ==
    /\ pc \in {"build", "summed"}
    /\ line' = data(peer, n)
    /\ maxLen' = n
    /\ pc' = IF pc = "summed" THEN "send" ELSE "sendStale"
    /\ UNCHANGED <<parserVars, peer, peerErrs, noise, fed, apiVars>>

\* the next serialised byte is fed to the parser
FeedLine ==
    /\ pc \in {"send", "sendStale"}
    /\ fed < Len(line)
    /\ Feed(line[fed + 1])
    /\ fed' = fed + 1
    /\ UNCHANGED <<peer, peerErrs, noise, line, maxLen, pc, apiVars>>

NextRoundTrip ==
    \/ \E v \in FieldBytes : SetId(v)
    \/ \E cmd \in FieldBytes : SetCommand(cmd)
    \/ \E n \in 0..(MaxCap + 1) : SetParamCount(n)
    \/ \E n \in 0..(MaxCap + 1) : \E bytes \in [0..(n - 1) -> FieldBytes] :
           SetParams(n, bytes)
    \/ \E wild \in WildBytes : UpdateChecksum(wild)
    \/ \E n \in 0..MaxLen : Serialise(n)
    \/ FeedLine

SpecRoundTrip == InitRoundTrip /\ [][NextRoundTrip]_vars

(***************************************************************************)
(* Two codecs on one line, one of them fed some bytes before the other     *)
(***************************************************************************)
\* most bytes fed to peer alone
MaxNoise == 3
\* most bytes fed to both codecs
MaxStream == 7
\* the byte values fed to peer alone, and to both
NoiseBytes == {0, 255}
StreamBytes == {2, 3, 255}
\* a frame parsed before the comparison starts
EarlierFrame == <<255, 255, 1, 4, 2, 43, 1, 204>>

RECURSIVE After(_, _)
\* the Packet after processByte was called with each byte of s in turn
After(p, s) ==
    IF s = << >> THEN p ELSE After(processByte(p, Head(s)).pkt, Tail(s))

InitNoise ==
    /\ \E cap \in 0..MaxCap, fill \in BufFill, s \in {<< >>, EarlierFrame} :
           /\ packet = After(Packet(cap, Buffer(cap, fill)), s)
           /\ peer = packet
    /\ NothingFed
    /\ pc = "noise"

\* peer.processByte(byte), and the record of it
FeedPeer(byte) ==
    LET r == processByte(peer, byte) IN
        /\ peer' = r.pkt
        /\ peerErrs' = Append(peerErrs, r.err)

\* a byte reaches peer before the stream starts
Noise(byte) ==
    /\ pc = "noise"
    /\ Len(noise) < MaxNoise
    /\ FeedPeer(byte)
    /\ noise' = Append(noise, byte)
    /\ UNCHANGED <<parserVars, line, maxLen, fed, pc, apiVars>>

\* a byte of the stream reaches both codecs; the stream ends with the first
\* result packet gets that is not NOT_DONE
Stream(byte) ==
    /\ pc \in {"noise", "stream"}
    /\ fed < MaxStream
    /\ IF fed = 0 THEN TRUE ELSE errs[Len(errs)] = Error_NOT_DONE
    /\ Feed(byte)
    /\ FeedPeer(byte)
    /\ fed' = fed + 1
    /\ pc' = "stream"
    /\ UNCHANGED <<noise, line, maxLen, apiVars>>

\* the bytes the stream may carry next: a stream byte, or the checksum the
\* wire format gives the frame sent so far
NextStreamBytes ==
    StreamBytes \cup
    (IF fed > 0 /\ packet.m_state # State_IDLE /\ ChecksumDue(wire)
     THEN {255 - (SumTo(wire, LeadFF(wire) + 1, Len(wire)) % 256)} ELSE {})

NextNoise ==
    \/ \E byte \in NoiseBytes : Noise(byte)
    \/ \E byte \in NextStreamBytes : Stream(byte)

SpecNoise == InitNoise /\ [][NextNoise]_vars

\* all the results of the run but the last are NOT_DONE
AllButLastNotDone == \A i \in 1..(Len(errs) - 1) : errs[i] = Error_NOT_DONE
LastErr == errs[Len(errs)]

\* the header members hold the wire's values
HeaderFromWire ==
    /\ packet.m_id = WireId(wire)
    /\ packet.m_length = WireLength(wire)
    /\ packet.m_cmd = WireCommand(wire)

\* the buffer is the caller's maxParams bytes, and its first n bytes are the
\* first n parameters of the wire
BufferFromWire(n) ==
    /\ DOMAIN packet.m_params = 0..(packet.m_maxParams - 1)
    /\ \A i \in 0..(n - 1) : packet.m_params[i] = WireParam(wire, i)

\* C1: a frame FF FF id L c p.. cs with L >= 2, a matching checksum and no
\* more parameters than the capacity, fed to a codec in IDLE, gets NOT_DONE
\* for every byte but the last and NONE for the last, and leaves id, length,
\* command, numParams, the parameters in order and the checksum as sent.
C1_WellFormedFrameParses ==
    (/\ WholeFrame(wire)
     /\ LeadFF(wire) = 2
     /\ WireLength(wire) >= 2
     /\ WireCount(wire) <= packet.m_maxParams
     /\ WireChecksum(wire) = FrameChecksum(wire))
    => /\ AllButLastNotDone
       /\ LastErr = Error_NONE
       /\ HeaderFromWire
       /\ numParams(packet) = WireLength(wire) - 2
       /\ BufferFromWire(WireCount(wire))
       /\ packet.m_checksum = WireChecksum(wire)

\* C1 witness: a two-parameter frame with distinct parameters was accepted
C1_Witness ==
    /\ WholeFrame(wire)
    /\ LeadFF(wire) = 2
    /\ WireLength(wire) = 4
    /\ WireParam(wire, 0) # WireParam(wire, 1)
    /\ WireChecksum(wire) = FrameChecksum(wire)
    /\ packet.m_maxParams >= 2
    /\ LastErr = Error_NONE

\* C2: when the byte in the checksum position differs from the complement of
\* the 8-bit sum of id, length, command and all received parameters, the
\* result is CHECKSUM (whether or not the declared count exceeds the
\* capacity); id, length, command and the stored parameters keep their wire
\* values and checksum() is the received byte.
C2_ChecksumMismatch ==
    (WholeFrame(wire) /\ WireChecksum(wire) # FrameChecksum(wire))
    => /\ AllButLastNotDone
       /\ LastErr = Error_CHECKSUM
       /\ HeaderFromWire
       /\ BufferFromWire(Min(WireCount(wire), packet.m_maxParams))
       /\ packet.m_checksum = WireChecksum(wire)

\* C2 witness: a frame of two parameters with a wrong checksum was rejected
\* by a codec of capacity 1
C2_Witness ==
    /\ WholeFrame(wire)
    /\ WireChecksum(wire) # FrameChecksum(wire)
    /\ WireCount(wire) = 2
    /\ packet.m_maxParams = 1
    /\ LastErr = Error_CHECKSUM

\* C3: a frame whose checksum matches the sum over id, length, command and
\* all its parameters gets TOO_MUCH_DATA on the checksum byte when its
\* declared count exceeds the capacity, with id, length and command as sent
\* and the buffer holding the first `capacity` parameters, and NONE when the
\* count is within the capacity.
C3_TooMuchData ==
    (WholeFrame(wire) /\ WireChecksum(wire) = FrameChecksum(wire))
    => /\ AllButLastNotDone
       /\ IF WireCount(wire) > packet.m_maxParams
          THEN /\ LastErr = Error_TOO_MUCH_DATA
               /\ HeaderFromWire
               /\ BufferFromWire(packet.m_maxParams)
          ELSE LastErr = Error_NONE

\* C3 witness: a well-summed frame of two parameters reached a codec of
\* capacity 1
C3_Witness ==
    /\ WholeFrame(wire)
    /\ WireChecksum(wire) = FrameChecksum(wire)
    /\ WireCount(wire) = 2
    /\ packet.m_maxParams = 1
    /\ LastErr = Error_TOO_MUCH_DATA

\* the codec is in the body state with parameters still to come
ReadingParam ==
    /\ packet.m_state = State_COMMAND_RCVD
    /\ packet.m_paramIdx < numParams(packet)

\* C4: processByte writes the parameter buffer only at indices below the
\* capacity: on a parameter byte the index counts up by one, and the byte is
\* stored, at that index, exactly when the index is below the capacity; no
\* other call writes the buffer.
C4_StoresBelowCapacity ==
    [][/\ lastStore' \in {NoStore} \cup 0..(packet.m_maxParams - 1)
       /\ DOMAIN packet'.m_params = 0..(packet.m_maxParams - 1)
       /\ IF ReadingParam
          THEN /\ packet'.m_paramIdx = packet.m_paramIdx + 1
               /\ lastStore' = IF packet.m_paramIdx < packet.m_maxParams
                                THEN packet.m_paramIdx ELSE NoStore
               /\ lastStore' # NoStore
                      => packet'.m_params[lastStore'] = wire'[Len(wire')]
          ELSE /\ lastStore' = NoStore
               /\ packet'.m_params = packet.m_params]_vars

\* C4 witness: a parameter byte at an index at or beyond the capacity was
\* counted and not stored
C4_Witness ==
    /\ packet.m_state = State_COMMAND_RCVD
    /\ packet.m_paramIdx > packet.m_maxParams
    /\ lastStore = NoStore

\* the values processByte returns
ProcessByteResults ==
    {Error_NOT_DONE, Error_NONE, Error_CHECKSUM, Error_TOO_MUCH_DATA}

\* C5: whatever bytes are fed, every call of processByte returns NOT_DONE,
\* NONE, CHECKSUM or TOO_MUCH_DATA, finds the state among the cases of its
\* switch and writes no memory outside the buffer.
C5_OnlyProtocolResults ==
    /\ \A i \in 1..Len(errs) : errs[i] \in ProcessByteResults
    /\ packet.m_state \in State
    /\ DOMAIN packet.m_params = 0..(packet.m_maxParams - 1)

\* C5 witness: a frame with length byte 0 ran to its result
C5_Witness ==
    /\ WholeFrame(wire)
    /\ WireLength(wire) = 0
    /\ LastErr \in {Error_NONE, Error_CHECKSUM}

\* the next byte is taken as the checksum
AtFinalize ==
    /\ packet.m_state = State_COMMAND_RCVD
    /\ packet.m_paramIdx = numParams(packet)

\* C6: processByte returns something other than NOT_DONE exactly on the
\* finalize step (body state, parameter index equal to the declared count),
\* and after a finalize step the state is IDLE.
C6_TerminalOnlyAtFinalize ==
    [][/\ (LastErr' # Error_NOT_DONE) <=> AtFinalize
       /\ AtFinalize => packet'.m_state = State_IDLE]_vars

\* C6 witness: a finalize step ended with CHECKSUM and the codec is in IDLE
C6_Witness ==
    /\ WholeFrame(wire)
    /\ LastErr = Error_CHECKSUM
    /\ packet.m_state = State_IDLE

\* C7: fed bytes only, the codec never holds 0xFF as id: the 0xFF bytes after
\* the two sync bytes are absorbed and the first other byte is the id.
C7_IdNeverFF ==
    /\ packet.m_id # 255
    /\ (LeadFF(wire) >= 2 /\ Len(wire) > LeadFF(wire))
       => packet.m_id = wire[LeadFF(wire) + 1]

\* C7 witness: an id was captured after more than two 0xFF bytes
C7_Witness ==
    /\ LeadFF(wire) >= 3
    /\ Len(wire) > LeadFF(wire)
    /\ packet.m_state = State_ID_RCVD

\* C8: a packet given an id other than 0xFF, a command and N parameters,
\* then update_checksum(), then data() into a buffer of at least N+6 bytes,
\* parses in a fresh codec of capacity >= N with NONE on the last byte, and
\* the codec holds the same id, command and N parameters.
C8_RoundTrip ==
    (/\ pc = "send"
     /\ fed = Len(line)
     /\ peer.m_id # 255
     /\ maxLen >= numParams(peer) + 6
     /\ numParams(peer) <= packet.m_maxParams)
    => /\ fed = numParams(peer) + 6
       /\ AllButLastNotDone
       /\ LastErr = Error_NONE
       /\ packet.m_id = peer.m_id
       /\ packet.m_cmd = peer.m_cmd
       /\ numParams(packet) = numParams(peer)
       /\ \A i \in 0..(numParams(peer) - 1) :
              packet.m_params[i] = peer.m_params[i]

\* C8 witness: a frame of two different parameters, one of them 0xFF, came
\* through
C8_Witness ==
    /\ pc = "send"
    /\ fed = Len(line)
    /\ maxLen >= numParams(peer) + 6
    /\ numParams(peer) = 2
    /\ peer.m_params[0] = 255
    /\ peer.m_params[1] = 3
    /\ packet.m_params = peer.m_params
    /\ LastErr = Error_NONE

RECURSIVE FirstTerminal(_)
\* the first result of es that is not NOT_DONE, NOT_DONE when there is none
FirstTerminal(es) ==
    IF es = << >> THEN Error_NOT_DONE
    ELSE IF Head(es) # Error_NOT_DONE THEN Head(es)
    ELSE FirstTerminal(Tail(es))

\* both codecs hold the same id, length, command and parameters
ParsedSame ==
    /\ peer.m_id = packet.m_id
    /\ peer.m_length = packet.m_length
    /\ peer.m_cmd = packet.m_cmd
    /\ peer.m_params = packet.m_params

\* every 0xFF of n is followed at once by another byte
Resyncs(n) ==
    \A i \in 1..Len(n) : n[i] = 255 => (i < Len(n) /\ n[i + 1] # 255)

\* C9 as stated: whatever bytes n reach the codec before a stream s that
\* holds a frame, the first result other than NOT_DONE and the parsed id,
\* length, command and parameters are those of s alone.
C9_AnyNoise ==
    (pc = "stream" /\ FirstTerminal(errs) # Error_NOT_DONE)
    => /\ FirstTerminal(peerErrs) = FirstTerminal(errs)
       /\ ParsedSame

\* C9 amended: when every 0xFF of the noise n is followed at once by a byte
\* other than 0xFF, the codec fed n and then s stands after every byte of s
\* exactly where the codec fed s alone stands: same result for the byte, same
\* first result other than NOT_DONE, same id, length, command, parameters.
C9_ResyncingNoise ==
    Resyncs(noise)
    => /\ peer = packet
       /\ FirstTerminal(peerErrs) = FirstTerminal(errs)
       /\ fed > 0 => peerErrs[Len(peerErrs)] = LastErr

\* C9 witness: after noise holding a 0xFF and ending in another byte, a
\* frame with a parameter was accepted
C9_Witness ==
    /\ Resyncs(noise)
    /\ Len(noise) >= 2
    /\ \E i \in 1..Len(noise) : noise[i] = 255
    /\ WholeFrame(wire)
    /\ WireCount(wire) = 1
    /\ FirstTerminal(peerErrs) = Error_NONE

\* the noise is 0xFF bytes only and the stream began with the two sync bytes
ExtraSync ==
    /\ \A i \in 1..Len(noise) : noise[i] = 255
    /\ fed = Len(wire)
    /\ LeadFF(wire) >= 2

\* C10: k >= 2 bytes 0xFF and then a frame body leave the codec, after each
\* byte, exactly where two 0xFF and the same body leave it: same results,
\* same fields, same running checksum.
C10_SyncAbsorption ==
    ExtraSync
    => /\ peer = packet
       /\ peerErrs[Len(peerErrs)] = LastErr
       /\ FirstTerminal(peerErrs) = FirstTerminal(errs)

\* C10 witness: a frame with a parameter was accepted after four 0xFF
C10_Witness ==
    /\ ExtraSync
    /\ Len(noise) = 2
    /\ LeadFF(wire) = 2
    /\ WholeFrame(wire)
    /\ WireCount(wire) = 1
    /\ LastErr = Error_NONE

\* no two neighbouring bytes of w are both 0xFF
NoTwoFF(w) == \A i \in 1..(Len(w) - 1) : ~(w[i] = 255 /\ w[i + 1] = 255)

\* C11: while the bytes fed to a codec in IDLE hold no two consecutive 0xFF,
\* every processByte call returns NOT_DONE, and after every byte that is not
\* 0xFF the codec is in IDLE again (so FF followed by another byte
\* resynchronises to IDLE).
C11_NoSyncNoResult ==
    (wire # << >> /\ NoTwoFF(wire))
    => /\ \A i \in 1..Len(errs) : errs[i] = Error_NOT_DONE
       /\ wire[Len(wire)] # 255 => packet.m_state = State_IDLE
       /\ wire[Len(wire)] = 255 => packet.m_state = State_FF_1ST_RCVD

\* C11 witness: a single 0xFF and then another byte were fed, and the codec
\* is in IDLE
C11_Witness ==
    /\ Len(wire) = 2
    /\ wire[1] = 255
    /\ wire[2] # 255
    /\ errs = <<Error_NOT_DONE, Error_NOT_DONE>>
    /\ packet.m_state = State_IDLE

RECURSIVE SumBuffer(_, _)
\* mem[0] + .. + mem[n-1]
SumBuffer(mem, n) == IF n = 0 THEN 0 ELSE SumBuffer(mem, n - 1) + mem[n - 1]

\* C12: after update_checksum() on a packet whose id, command and parameters
\* were set by the caller, checksum() is 255 minus the sum, modulo 256, of
\* id(), length(), command() and the numParams() parameter bytes.
C12_ChecksumFormula ==
    pc = "summed"
    => peer.m_checksum =
           255 - ((peer.m_id + peer.m_length + peer.m_cmd
                   + SumBuffer(peer.m_params, numParams(peer))) % 256)

\* C12 witness: id 1, WRITE and the two parameters 3 and 1 were summed to
\* 0xF3
C12_Witness ==
    /\ pc = "summed"
    /\ peer.m_id = 1
    /\ peer.m_cmd = 3
    /\ numParams(peer) = 2
    /\ peer.m_params[0] = 3
    /\ peer.m_params[1] = 1
    /\ peer.m_checksum = 243

(***************************************************************************)
(* One Packet driven through its whole interface                           *)
(***************************************************************************)
\* static constexpr uint8_t MAX_PARAMS
MAX_PARAMS == 253

\* PacketAssert that admits every capacity an 8-bit member can hold
PacketAssert_Byte(maxParams) == maxParams <= 255

\* the assertion of Packet::Packet(maxParams, params): construction aborts
\* when it fails
PacketAssert(maxParams) == maxParams <= MAX_PARAMS

\* Packet::errorCode(Error::Type err): the 16-bit code goes to the 8-bit m_cmd
errorCode(p, err) == [p EXCEPT !.m_cmd = err % 256]

\* the capacities a caller asks for
CtorArgs == {0, 1, 2, MAX_PARAMS, MAX_PARAMS + 1, 256}
\* the ids, commands and error codes a caller sets
IdArgs == {255}
CommandArgs == {3}
ErrorArgs == {Error_TOO_MUCH_DATA}
\* the parameter counts a caller sets, and the arrays of n bytes it passes
CountArgs == 0..3
ParamArgs(n) == {[i \in 0..(n - 1) |-> i + 1], [i \in 0..(n - 1) |-> 3]}
\* the byte streams a caller parses: EarlierFrame, the same frame with a
\* wrong checksum, a frame whose length byte is 0, a frame cut short
Streams == {EarlierFrame,
            <<255, 255, 1, 4, 2, 43, 1, 0>>,
            <<255, 255, 1, 0, 2, 252>>,
            <<255, 255, 1, 4, 2, 43>>}

RECURSIVE parseData(_, _)
\* PacketTest::parseData(): processByte on each byte of the stream s until
\* one returns something else than NOT_DONE
parseData(p, s) ==
    IF s = << >> THEN [pkt |-> p, err |-> Error_NOT_DONE]
    ELSE LET r == processByte(p, Head(s)) IN
             IF r.err # Error_NOT_DONE THEN [pkt |-> r.pkt, err |-> r.err]
             ELSE parseData(r.pkt, Tail(s))

\* the variables no call on the packet touches
apiFrame ==
    <<peer, peerErrs, noise, line, maxLen, table, port, storage, saved>>

\* most calls that change the packet
MaxCalls == 3

InitApi ==
    /\ packet = Packet(0, Buffer(0, 0))
    /\ peer = Packet(0, Buffer(0, 0))
    /\ NothingFed
    /\ pc = "new"

\* Packet packet(maxParams, buf): the members are initialised, then the
\* assertion is tested
New(maxParams) ==
    /\ pc = "new"
    /\ \E fill \in BufFill :
           packet' = Packet(maxParams % 256, Buffer(maxParams, fill))
    /\ pc' = IF PacketAssert(maxParams) THEN "live" ELSE "aborted"
    /\ call' = [op |-> "Packet", arg |-> maxParams, made |-> 0]
    /\ UNCHANGED <<wire, errs, lastStore, fed, apiFrame>>

\* packet.id(v)
CallId(v) ==
    /\ pc = "live"
    /\ call.made < MaxCalls
    /\ packet' = id(packet, v)
    /\ call' = [op |-> "id", arg |-> v,
                made |-> call.made + 1]
    /\ UNCHANGED <<wire, errs, lastStore, fed, pc, apiFrame>>

\* packet.command(cmd)
CallCommand(cmd) ==
    /\ pc = "live"
    /\ call.made < MaxCalls
    /\ packet' = command(packet, cmd)
    /\ call' = [op |-> "command", arg |-> cmd,
                made |-> call.made + 1]
    /\ UNCHANGED <<wire, errs, lastStore, fed, pc, apiFrame>>

\* packet.errorCode(err)
CallErrorCode(err) ==
    /\ pc = "live"
    /\ call.made < MaxCalls
    /\ packet' = errorCode(packet, err)
    /\ call' = [op |-> "errorCode", arg |-> err,
                made |-> call.made + 1]
    /\ UNCHANGED <<wire, errs, lastStore, fed, pc, apiFrame>>

\* packet.params(n): the assertion is tested, then the length is set
CallParams(n) ==
    /\ pc = "live"
    /\ call.made < MaxCalls
    /\ packet' = IF paramsAssert(packet, n)
                  THEN paramsCount(packet, n) ELSE packet
    /\ pc' = IF paramsAssert(packet, n) THEN "live" ELSE "aborted"
    /\ call' = [op |-> "params", arg |-> n, bytes |-> << >>,
                made |-> call.made + 1]
    /\ UNCHANGED <<wire, errs, lastStore, fed, apiFrame>>

\* packet.params(n, bytes): the assertion is tested, then the bytes are
\* copied and the length is set
CallParamsData(n, bytes) ==
    /\ pc = "live"
    /\ call.made < MaxCalls
    /\ packet' = IF paramsAssert(packet, n)
                  THEN params(packet, n, bytes) ELSE packet
    /\ pc' = IF paramsAssert(packet, n) THEN "live" ELSE "aborted"
    /\ call' = [op |-> "paramsData", arg |-> n, bytes |-> bytes,
                made |-> call.made + 1]
    /\ UNCHANGED <<wire, errs, lastStore, fed, apiFrame>>

\* packet.update_checksum()
CallUpdateChecksum(wild) ==
    /\ pc = "live"
    /\ call.made < MaxCalls
    /\ packet' = update_checksum(packet, wild)
    /\ call' = [op |-> "update_checksum",
                made |-> call.made + 1]
    /\ UNCHANGED <<wire, errs, lastStore, fed, pc, apiFrame>>

\* packet.data(n, buf): ret is the bytes written, as many as the value
\* returned
CallData(n) ==
    /\ pc = "live"
    /\ call' = [op |-> "data", arg |-> n, ret |-> data(packet, n),
                made |-> call.made]
    /\ UNCHANGED <<parserVars, fed, pc, apiFrame>>

\* the bytes of stream s are parsed into the packet
CallParseData(s) ==
    /\ pc = "live"
    /\ call.made < MaxCalls
    /\ packet' = parseData(packet, s).pkt
    /\ call' = [op |-> "parseData", arg |-> s,
                ret |-> parseData(packet, s).err, made |-> call.made + 1]
    /\ UNCHANGED <<wire, errs, lastStore, fed, pc, apiFrame>>

NextApi ==
    \/ \E maxParams \in CtorArgs : New(maxParams)
    \/ \E v \in IdArgs : CallId(v)
    \/ \E cmd \in CommandArgs : CallCommand(cmd)
    \/ \E err \in ErrorArgs : CallErrorCode(err)
    \/ \E n \in CountArgs : CallParams(n)
    \/ \E n \in CountArgs : \E bytes \in ParamArgs(n) : CallParamsData(n, bytes)
    \/ \E wild \in WildBytes : CallUpdateChecksum(wild)
    \/ \E n \in 0..MaxLen : CallData(n)
    \/ \E s \in Streams : CallParseData(s)

SpecApi == InitApi /\ [][NextApi]_vars


\* the setters of a Packet
Setters == {"id", "command", "errorCode", "params", "paramsData"}

\* C13: the checksum is never recomputed implicitly: a call of id(),
\* command(), errorCode() or params() leaves checksum() as it was; data()
\* changes no member of the packet, and when it emits the whole frame the
\* last byte is the stored checksum, stale or received as it may be.
C13_ChecksumNotImplicit ==
    [][/\ call'.op \in Setters => packet'.m_checksum = packet.m_checksum
       /\ call'.op = "data"
          => /\ packet' = packet
             /\ Len(call'.ret) = numParams(packet) + 6
                => call'.ret[Len(call'.ret)] = packet.m_checksum]_vars

\* C13 witness: update_checksum(), then id(255), then data() wrote the whole
\* frame, its last byte the checksum summed before the id was changed
C13_Witness ==
    /\ call.op = "data"
    /\ packet.m_id = 255
    /\ Len(call.ret) = numParams(packet) + 6
    /\ call.ret[Len(call.ret)] = packet.m_checksum
    /\ packet.m_checksum # update_checksum(packet, 0).m_checksum
    /\ packet.m_checksum = update_checksum(id(packet, ID_DEFAULT), 0).m_checksum

\* the full serialisation of p:
\* FF FF id length command param_0 .. param_{numParams-1} checksum
FullFrame(p) ==
    <<255, 255, p.m_id, p.m_length, p.m_cmd>>
    \o [i \in 1..numParams(p) |-> p.m_params[i - 1]]
    \o <<p.m_checksum>>

\* C14: for a packet whose numParams() is within its capacity and every
\* maxLen, data(maxLen, buf) returns min(maxLen, numParams() + 6) and writes
\* that many bytes, none at an index >= maxLen, and they are the leading
\* bytes of the full serialisation.
C14_DataTruncates ==
    (pc = "live" /\ call.op = "data"
     /\ numParams(packet) <= packet.m_maxParams)
    => /\ Len(call.ret) = Min(call.arg, numParams(packet) + 6)
       /\ Len(call.ret) <= call.arg
       /\ call.ret = SubSeq(FullFrame(packet), 1, Len(call.ret))

\* C14 witness: a packet of two parameters was serialised into a buffer of
\* six bytes: the header and the first parameter
C14_Witness ==
    /\ call.op = "data"
    /\ numParams(packet) = 2
    /\ packet.m_maxParams >= 2
    /\ call.arg = 6
    /\ call.ret = <<255, 255, packet.m_id, 4, packet.m_cmd, packet.m_params[0]>>

\* C15: for a packet whose numParams() exceeds its capacity, as a parse that
\* returned TOO_MUCH_DATA leaves it, data(maxLen, buf) with maxLen >=
\* 5 + capacity writes exactly 5 + capacity bytes: FF FF id length command
\* and the stored parameters, and no checksum byte.
C15_DataAfterTooMuchData ==
    (pc = "live" /\ call.op = "data"
     /\ numParams(packet) > packet.m_maxParams
     /\ call.arg >= 5 + packet.m_maxParams)
    => call.ret = <<255, 255, packet.m_id, packet.m_length, packet.m_cmd>>
                  \o [i \in 1..packet.m_maxParams |-> packet.m_params[i - 1]]

\* C15 witness: a packet of capacity 1 parsed FF FF 01 04 02 2B 01 CC and
\* data() wrote the six bytes FF FF 01 04 02 2B into a buffer of nine
C15_Witness ==
    /\ call.op = "data"
    /\ call.arg = 9
    /\ packet.m_maxParams = 1
    /\ packet.m_state = State_IDLE
    /\ packet.m_checksum = 204
    /\ call.ret = <<255, 255, 1, 4, 2, 43>>

\* C16: in every state of a constructed Packet, whether fresh, changed by
\* its setters or fed bytes, length() >= 2 and length() = numParams() + 2.
C16_LengthInvariant ==
    pc = "live"
    => /\ packet.m_length >= 2
       /\ packet.m_length = numParams(packet) + 2

\* C17: params(n) and params(n, data) with n within the capacity set
\* length() to n + 2 and numParams() to n, the second copying just the n
\* given bytes into the buffer; with n above the capacity both abort on
\* their assertion, the length and the buffer as they were.
C17_ParamsContract ==
    [][call'.op \in {"params", "paramsData"}
       => IF call'.arg <= packet.m_maxParams
          THEN /\ pc' = "live"
               /\ packet'.m_length = call'.arg + 2
               /\ numParams(packet') = call'.arg
               /\ packet'.m_params =
                      [i \in DOMAIN packet.m_params |->
                          IF call'.op = "paramsData" /\ i < call'.arg
                          THEN call'.bytes[i] ELSE packet.m_params[i]]
          ELSE /\ pc' = "aborted"
               /\ packet'.m_length = packet.m_length
               /\ packet'.m_params = packet.m_params]_vars

\* C17 witness: params(2, {1, 2}) set two parameters of a packet of capacity
\* 2, then params(3) aborted and left them
C17_Witness ==
    /\ pc = "aborted"
    /\ call.op = "params"
    /\ call.arg = 3
    /\ packet.m_maxParams = 2
    /\ packet.m_length = 4
    /\ packet.m_params = [i \in 0..1 |-> i + 1]

\* C18: a Packet is constructed only with a capacity of at most 253:
\* construction with maxParams > 253 aborts on its assertion, so in every
\* constructed packet capacity + 2 fits the 8-bit length.
C18_CapacityAtMost253 ==
    /\ (call.op = "Packet" /\ call.arg > 253) => pc = "aborted"
    /\ pc = "live" => packet.m_maxParams + 2 <= 255

\* C18 witness: the construction Packet(256, buf) aborted
C18_Witness ==
    /\ call.op = "Packet"
    /\ call.arg = 256
    /\ pc = "aborted"

\* C19: the value 0xFF never appears on the wire as an id: whatever calls of
\* the setters, update_checksum and the parser came before, the third byte
\* data() emits is not 0xFF.
C19_IdByteNeverFF ==
    (pc = "live" /\ call.op = "data" /\ Len(call.ret) >= 3)
    => call.ret[3] # 255

(***************************************************************************)
(* The control table                                                       *)
(*                                                                         *)
(* A value of an integral type T is held as its object representation:     *)
(* the sizeof(T) bytes of its two's complement, least significant first,   *)
(* so that 32-bit values stay within reach. T is [w, signed].              *)
(***************************************************************************)
\* IControlTable::Offset::BAUD
Offset_BAUD == 4

Types == [w : {1, 2, 4}, signed : BOOLEAN]
uint8_t == [w |-> 1, signed |-> FALSE]

\* val & 0xff
LowByte(val) == val[1]

ShiftRight8_None(T, val) == val

\* val >>= 8 on a value of type T: the sign fills the top of a signed one
ShiftRight8(T, val) ==
    Tail(val) \o <<IF T.signed /\ val[Len(val)] >= 128 THEN 255 ELSE 0>>

\* val <<= 8, the top byte lost
ShiftLeft8(val) == <<0>> \o SubSeq(val, 1, Len(val) - 1)

RECURSIVE Or8(_, _)
\* a | b on bytes
Or8(a, b) ==
    IF a = 0 THEN b
    ELSE IF b = 0 THEN a
    ELSE (IF a % 2 = 1 \/ b % 2 = 1 THEN 1 ELSE 0)
         + 2 * Or8(a \div 2, b \div 2)

\* val |= byte
OrByte(val, byte) == [val EXCEPT ![1] = Or8(val[1], byte)]

\* a value of type T assigned from a byte of the table
FromByte(T, byte) == [i \in 1..T.w |-> IF i = 1 THEN byte ELSE 0]

\* the assertion of every typed accessor: the call aborts when it fails
accessAssert(t, T, offset) == offset + T.w <= t.m_numCtlBytes

RECURSIVE GetLoop(_, _, _, _)
\* the loop of get for the wider types: i more bytes to shift in, from the
\* byte below offset downwards
GetLoop(t, offset, val, i) ==
    IF i = 0 THEN val
    ELSE GetLoop(t, offset - 1,
                 OrByte(ShiftLeft8(val), t.m_ctlBytes[offset - 1]), i - 1)

\* IControlTable::get<T>(offset, &val), its assertion holding: the value
\* stored in val
get(t, T, offset) ==
    IF T.w = 1 THEN FromByte(T, t.m_ctlBytes[offset])
    ELSE IF T.w = 2
    THEN OrByte(ShiftLeft8(FromByte(T, t.m_ctlBytes[offset + 1])),
                t.m_ctlBytes[offset])
    ELSE GetLoop(t, offset + T.w - 1,
                 FromByte(T, t.m_ctlBytes[offset + T.w - 1]), T.w - 1)

SetLoop_ClearsFirst(bytes, T, offset, val, i) ==
    [j \in DOMAIN bytes |->
        IF j >= offset /\ j <= offset + i THEN val[j - offset + 1]
        ELSE IF j = 0 THEN 0 ELSE bytes[j]]

RECURSIVE SetLoop(_, _, _, _, _)
\* the writes of set: the low byte of val at offset, then i more bytes of
\* val shifted right
SetLoop(bytes, T, offset, val, i) ==
    LET written == [bytes EXCEPT ![offset] = LowByte(val)] IN
    IF i = 0 THEN written
    ELSE SetLoop(written, T, (offset + 1) % 256, ShiftRight8(T, val), i - 1)

\* the offset set<T> hands to entryModified: offset itself for one byte,
\* offset advanced past the bytes written otherwise
SetEnd(T, offset) == IF T.w = 1 THEN offset ELSE (offset + T.w) % 256

BaudRate_Wrap(v) ==
    IF (v + 1) % 256 = 0 THEN 0 ELSE 2000000 \div ((v + 1) % 256)

\* the bit rate of baud byte v
BaudRate(v) == 2000000 \div (v + 1)

\* IControlTable::entryModified(offset) on table t and port p: the table,
\* the port and whether the call aborted
entryModified(t, p, offset) ==
    IF offset # Offset_BAUD THEN [table |-> t, port |-> p, aborted |-> FALSE]
    ELSE IF ~accessAssert(t, uint8_t, Offset_BAUD)
    THEN [table |-> t, port |-> p, aborted |-> TRUE]
    ELSE [table |-> t,
          port |-> Append(p, BaudRate(get(t, uint8_t, Offset_BAUD)[1])),
          aborted |-> FALSE]

\* IControlTable::set<T>(offset, val) on table t and port p
set(t, p, T, offset, val) ==
    IF ~accessAssert(t, T, offset)
    THEN [table |-> t, port |-> p, aborted |-> TRUE]
    ELSE entryModified(
             [t EXCEPT !.m_ctlBytes = SetLoop(@, T, offset, val, T.w - 1)],
             p, SetEnd(T, offset))

\* what a call does in the order it does it: the hooks it invokes, the table
\* bytes it reads and writes, the notification of the port
Event(ev, offset) == [ev |-> ev, offset |-> offset]

GetEvents_HookLast(T, offset) ==
    [i \in 1..T.w |-> Event("read", offset + T.w - i)]
    \o <<Event("populateEntry", offset)>>

\* the steps of get<T>(offset, &val), its assertion holding
GetEvents(T, offset) ==
    <<Event("populateEntry", offset)>>
    \o (IF T.w = 1 THEN <<Event("read", offset)>>
        ELSE IF T.w = 2
        THEN <<Event("read", offset + 1), Event("read", offset)>>
        ELSE [i \in 1..T.w |-> Event("read", offset + T.w - i)])

\* the steps of entryModified(offset) on table t
EntryModifiedEvents(t, offset) ==
    <<Event("entryModified", offset)>>
    \o (IF offset # Offset_BAUD \/ ~accessAssert(t, uint8_t, Offset_BAUD)
        THEN << >>
        ELSE GetEvents(uint8_t, Offset_BAUD)
             \o <<Event("setBaudRate", Offset_BAUD)>>)

\* the steps of set<T>(offset, val) on table t
SetEvents(t, T, offset) ==
    IF ~accessAssert(t, T, offset) THEN << >>
    ELSE [i \in 1..T.w |-> Event("write", (offset + i - 1) % 256)]
         \o EntryModifiedEvents(t, SetEnd(T, offset))

\* the sizes of the tables constructed: one that ends before the baud byte,
\* one that holds just the common fields, one with room for a field after
\* them
TableSizes == {4, 6, 10}
\* the values a caller sets, by type
Values(T) ==
    IF T.w = 1 THEN {<<1>>, <<200>>}
    ELSE IF T.w = 2 THEN {<<102, 85>>, <<0, 128>>}
    ELSE {<<68, 51, 34, 17>>, <<254, 255, 255, 255>>}
\* the offsets a caller passes: every byte of the largest table, and its end
Offsets == 0..10
\* most calls made on the table
MaxOps == 2

\* the variables no call on the table touches
tableFrame == <<parserVars, peer, peerErrs, noise, line, maxLen, fed>>

\* IControlTable(numCtlBytes, numPersistentBytes, ctlBytes, storage, port):
\* the caller's memory holds whatever it held
InitTable ==
    /\ packet = Packet(0, Buffer(0, 0))
    /\ peer = Packet(0, Buffer(0, 0))
    /\ wire = << >>
    /\ errs = << >>
    /\ lastStore = NoStore
    /\ peerErrs = << >>
    /\ noise = << >>
    /\ line = << >>
    /\ maxLen = 0
    /\ fed = 0
    /\ call = NoCall
    /\ \E size \in TableSizes, fill \in BufFill :
           table = [m_numCtlBytes |-> size,
                    m_numPersistentBytes |-> size \div 2,
                    m_ctlBytes |-> Buffer(size, fill)]
    /\ port = << >>
    /\ storage = << >>
    /\ saved = NoSave
    /\ pc = "live"

\* table.set<T>(offset, val)
Set(T, offset, val) ==
    /\ pc = "live"
    /\ call.made < MaxOps
    /\ LET r == set(table, port, T, offset, val) IN
           /\ table' = r.table
           /\ port' = r.port
           /\ pc' = IF r.aborted THEN "aborted" ELSE "live"
    /\ call' = [op |-> "set", type |-> T, offset |-> offset, val |-> val,
                events |-> SetEvents(table, T, offset),
                made |-> call.made + 1]
    /\ UNCHANGED <<storage, saved, tableFrame>>

\* table.get<T>(offset, &val): the assertion is tested, populateEntry does
\* nothing, the bytes are read
Get(T, offset) ==
    /\ pc = "live"
    /\ call.made < MaxOps
    /\ pc' = IF accessAssert(table, T, offset) THEN "live" ELSE "aborted"
    /\ call' = [op |-> "get", type |-> T, offset |-> offset,
                val |-> IF accessAssert(table, T, offset)
                        THEN get(table, T, offset) ELSE << >>,
                events |-> IF accessAssert(table, T, offset)
                           THEN GetEvents(T, offset) ELSE << >>,
                made |-> call.made + 1]
    /\ UNCHANGED <<table, port, storage, saved, tableFrame>>

NextTable ==
    \/ \E T \in Types, offset \in Offsets : \E val \in Values(T) :
           Set(T, offset, val)
    \/ \E T \in Types, offset \in Offsets : Get(T, offset)

SpecTable == InitTable /\ [][NextTable]_vars

\* C20: register round trip: for every width 1, 2 and 4, signed or
\* unsigned, every offset o with o + w <= totalSize and every value v of the
\* type, set(o, v) completes and a get of the same type at o that follows
\* it returns v, sign included.
C20_RegisterRoundTrip ==
    [][/\ (/\ call'.op = "set"
           /\ call'.offset + call'.type.w <= table.m_numCtlBytes)
          => pc' = "live"
       /\ (/\ call.op = "set"
           /\ call'.op = "get"
           /\ call'.type = call.type
           /\ call'.offset = call.offset)
          => /\ pc' = "live"
             /\ call'.val = call.val]_vars

\* the w bytes of the number n, least significant first: (n >> 8i) & 0xFF
BytesOf(n, w) == [i \in 1..w |-> (n \div (256 ^ (i - 1))) % 256]

\* C21: little-endian layout: a set of a w-byte value v at offset o that
\* passes its assertion leaves byte (v >> 8i) & 0xFF of v in the table at
\* o + i for every i in 0..w-1, and a w-byte get at o returns the value
\* whose byte i is the table byte at o + i, so the sum of byte[o+i] * 256^i.
C21_LittleEndian ==
    [][/\ (/\ call'.op = "set"
           /\ accessAssert(table, call'.type, call'.offset))
          => \A i \in 0..(call'.type.w - 1) :
                 table'.m_ctlBytes[call'.offset + i] = call'.val[i + 1]
       /\ (call'.op = "get" /\ pc' = "live")
          => call'.val = [i \in 1..call'.type.w |->
                             table.m_ctlBytes[call'.offset + i - 1]]]_vars

\* C21 witness: 0x11223344 set at offset 6 is stored as 44 33 22 11 and a
\* 4-byte get at 6 returned it
C21_Witness ==
    /\ call.op = "get"
    /\ call.type = [w |-> 4, signed |-> FALSE]
    /\ call.offset = 6
    /\ call.val = BytesOf(287454020, 4)
    /\ [i \in 0..3 |-> table.m_ctlBytes[6 + i]] = [i \in 0..3 |->
           IF i = 0 THEN 68 ELSE IF i = 1 THEN 51 ELSE IF i = 2 THEN 34 ELSE 17]

\* C22: bounds contract: a typed get or set of width w at offset o completes
\* whenever o + w <= totalSize, o + w = totalSize included, and aborts on
\* its assertion whenever o + w > totalSize, before a table byte is read or
\* written and before a hook is invoked.
C22_BoundsContract ==
    [][call'.op \in {"get", "set"}
       => IF call'.offset + call'.type.w <= table.m_numCtlBytes
          THEN pc' = "live"
          ELSE /\ pc' = "aborted"
               /\ call'.events = << >>
               /\ table' = table
               /\ port' = port]_vars

(***************************************************************************)
(* The control table and its storage                                       *)
(*                                                                         *)
(* The storage is a file: a sequence of bytes, empty when there is none.   *)
(* A call of the storage may fail to open the file, and a read or a write  *)
(* may move fewer bytes than asked.                                        *)
(***************************************************************************)
\* IControlTable::Offset::ID, RDT and the defaults
Offset_ID == 3
Offset_RDT == 5
DEFAULT_DEVICE_ID == 0
DEFAULT_BAUD == 1
DEFAULT_RDT == 250

\* IControlTableStorage::Error
StorageError_NONE == "NONE"
StorageError_FAILED == "FAILED"

memset_Invert(bytes, c, n) ==
    [i \in DOMAIN bytes |-> IF i < n THEN 255 - bytes[i] ELSE bytes[i]]

\* memset(bytes, c, n)
memset(bytes, c, n) == [i \in DOMAIN bytes |-> IF i < n THEN c ELSE bytes[i]]

\* the bytes [0, n) of a buffer, in order
FirstBytes(bytes, n) == [i \in 1..n |-> bytes[i - 1]]

\* memcpy(bytes, read, Len(read)): what a read of the file leaves in the
\* caller's buffer
ReadInto(bytes, read) ==
    [i \in DOMAIN bytes |-> IF i < Len(read) THEN read[i + 1] ELSE bytes[i]]

\* the file after write(fd, buf, k) at offset
FileWrite(file, offset, k, buf) ==
    [q \in 1..(IF Len(file) > offset + k THEN Len(file) ELSE offset + k) |->
        IF q > offset /\ q <= offset + k THEN buf[q - offset - 1]
        ELSE IF q <= Len(file) THEN file[q] ELSE 0]

\* FileStorage::load(offset, numBytes, data) on a file: every way the call
\* can end, as the status returned and the bytes read into data
StorageLoad(file, offset, numBytes) ==
    {[rc |-> StorageError_FAILED, read |-> << >>]}
    \cup
    {LET left == IF Len(file) > offset THEN Len(file) - offset ELSE 0
         got == IF left < numBytes THEN left ELSE numBytes
     IN [rc |-> IF got = numBytes THEN StorageError_NONE
                ELSE StorageError_FAILED,
         read |-> SubSeq(file, offset + 1, offset + got)]}

\* FileStorage::save(offset, numBytes, buf) on a file: every way the call
\* can end, as the status returned, the file left and the arguments received
StorageSave(file, offset, numBytes, buf) ==
    {[rc |-> StorageError_FAILED, file |-> file,
      offset |-> offset, numBytes |-> numBytes, data |-> buf]}
    \cup
    {[rc |-> IF k = numBytes THEN StorageError_NONE ELSE StorageError_FAILED,
      file |-> FileWrite(file, offset, k, buf),
      offset |-> offset, numBytes |-> numBytes, data |-> buf] :
        k \in 0..numBytes}

setToInitialValues_NoClear(t, p) ==
    LET a == set(t, p, uint8_t, Offset_ID, <<DEFAULT_DEVICE_ID>>)
        b == IF a.aborted THEN a
             ELSE set(a.table, a.port, uint8_t, Offset_BAUD, <<DEFAULT_BAUD>>)
    IN IF b.aborted THEN b
       ELSE set(b.table, b.port, uint8_t, Offset_RDT, <<DEFAULT_RDT>>)

\* IControlTable::setToInitialValues() on table t and port p: the table, the
\* port and whether one of its sets aborted
setToInitialValues(t, p) ==
    LET z == [t EXCEPT !.m_ctlBytes = memset(@, 0, t.m_numCtlBytes)]
        a == set(z, p, uint8_t, Offset_ID, <<DEFAULT_DEVICE_ID>>)
        b == IF a.aborted THEN a
             ELSE set(a.table, a.port, uint8_t, Offset_BAUD, <<DEFAULT_BAUD>>)
    IN IF b.aborted THEN b
       ELSE set(b.table, b.port, uint8_t, Offset_RDT, <<DEFAULT_RDT>>)

load_NoFallback(t, p, o) ==
    [table |-> [t EXCEPT !.m_ctlBytes =
                    ReadInto(memset(@, 0, t.m_numCtlBytes), o.read)],
     port |-> p, aborted |-> FALSE]

load_NoClear(t, p, o) ==
    LET d == [t EXCEPT !.m_ctlBytes = ReadInto(@, o.read)] IN
    IF o.rc = StorageError_NONE
    THEN [table |-> d, port |-> p, aborted |-> FALSE]
    ELSE setToInitialValues(d, p)

\* IControlTable::load() on table t and port p, the storage's load ending
\* as o
load(t, p, o) ==
    LET d == [t EXCEPT !.m_ctlBytes =
                  ReadInto(memset(@, 0, t.m_numCtlBytes), o.read)] IN
    IF o.rc = StorageError_NONE
    THEN [table |-> d, port |-> p, aborted |-> FALSE]
    ELSE setToInitialValues(d, p)

save_AlwaysNone(t, o) == StorageError_NONE

\* IControlTable::save() on table t, the storage's save ending as o: the
\* status returned
save(t, o) == o.rc

\* the sets made between a save and a load: a persistent byte, a field that
\* ends at the baud byte, a byte of the volatile part of the largest table
StoreSets ==
    {[T |-> uint8_t, offset |-> 0, val |-> <<200>>],
     [T |-> [w |-> 2, signed |-> FALSE], offset |-> 2, val |-> <<102, 85>>],
     [T |-> uint8_t, offset |-> 9, val |-> <<1>>]}

\* table.setToInitialValues()
SetToInitialValues ==
    /\ pc = "live"
    /\ call.made < MaxOps
    /\ LET r == setToInitialValues(table, port) IN
           /\ table' = r.table
           /\ port' = r.port
           /\ pc' = IF r.aborted THEN "aborted" ELSE "live"
    /\ call' = [op |-> "setToInitialValues", after |-> call.op,
                made |-> call.made + 1]
    /\ UNCHANGED <<storage, saved, tableFrame>>

\* the memory the storage finds at &m_ctlBytes[0]: the bytes of the table
\* and, past its end, whatever the memory there holds
Memory(t, wild) ==
    [i \in 0..((IF t.m_numPersistentBytes > t.m_numCtlBytes
                THEN t.m_numPersistentBytes ELSE t.m_numCtlBytes) - 1) |->
        IF i < t.m_numCtlBytes THEN t.m_ctlBytes[i] ELSE wild]

\* the storage wrote past the end of the table: the program may go on or
\* crash
Overrun(t, read) == Len(read) > t.m_numCtlBytes

\* table.load()
Load ==
    /\ pc = "live"
    /\ call.made < MaxOps
    /\ \E o \in StorageLoad(storage, 0, table.m_numPersistentBytes) :
           /\ LET r == load(table, port, o) IN
                  /\ table' = r.table
                  /\ port' = r.port
                  /\ IF r.aborted THEN pc' = "aborted"
                     ELSE IF Overrun(table, o.read)
                     THEN pc' \in {"live", "aborted"}
                     ELSE pc' = "live"
           /\ call' = [op |-> "load", rc |-> o.rc, read |-> o.read,
                       made |-> call.made + 1]
    /\ UNCHANGED <<storage, saved, tableFrame>>

\* table.save(): the table is left as it is, so the call is not counted
Save ==
    /\ pc = "live"
    /\ \E wild \in WildBytes :
       \E o \in StorageSave(storage, 0, table.m_numPersistentBytes,
                            Memory(table, wild)) :
           /\ storage' = o.file
           /\ saved' = IF o.rc = StorageError_NONE
                       THEN [valid |-> TRUE,
                             data |-> FirstBytes(Memory(table, wild),
                                                 table.m_numPersistentBytes)]
                       ELSE NoSave
           /\ call' = [op |-> "save", ret |-> save(table, o), storage |-> o,
                       made |-> call.made]
    /\ UNCHANGED <<table, port, pc, tableFrame>>

NextStore ==
    \/ \E a \in StoreSets : Set(a.T, a.offset, a.val)
    \/ SetToInitialValues
    \/ Load
    \/ Save

SpecStore == InitTable /\ [][NextStore]_vars

\* C23: after the base setToInitialValues() has completed, whatever the
\* table held before, every byte of the table is 0 except offset 0x03 =
\* DEFAULT_DEVICE_ID (0x00), offset 0x04 = DEFAULT_BAUD (0x01) and offset
\* 0x05 = DEFAULT_RDT (250).
C23_InitialValues ==
    (call.op = "setToInitialValues" /\ pc = "live")
    => table.m_ctlBytes =
           [i \in 0..(table.m_numCtlBytes - 1) |->
               IF i = 3 THEN 0 ELSE IF i = 4 THEN 1
               ELSE IF i = 5 THEN 250 ELSE 0]

\* C23 witness: a table of ten bytes changed by a set, then reset
C23_Witness ==
    /\ call.op = "setToInitialValues"
    /\ call.after = "set"
    /\ pc = "live"
    /\ table.m_numCtlBytes = 10
    /\ table.m_ctlBytes[5] = 250

\* C24: idempotence: a setToInitialValues() that follows a
\* setToInitialValues() leaves every byte of the table as the first call
\* left it, whatever the table held before the first.
C24_Idempotent ==
    [][(/\ call.op = "setToInitialValues"
        /\ call'.op = "setToInitialValues"
        /\ call'.made = call.made + 1)
       => /\ pc' = "live"
          /\ table'.m_ctlBytes = table.m_ctlBytes]_vars

\* C24 witness: setToInitialValues() called twice in a row
C24_Witness ==
    /\ call.op = "setToInitialValues"
    /\ call.after = "setToInitialValues"
    /\ call.made = 2
    /\ pc = "live"

\* C25: when the storage's load returns FAILED, load() leaves the whole
\* table as setToInitialValues() leaves it, whatever the table held before
\* and whatever bytes the storage wrote into the buffer before it failed.
C25_LoadFailed ==
    [][(call'.op = "load" /\ call'.rc = StorageError_FAILED)
       => LET r == setToInitialValues(table, port) IN
              /\ table'.m_ctlBytes = r.table.m_ctlBytes
              /\ (pc' = "aborted") = r.aborted]_vars

\* C25 witness: the storage read one byte of a short file into the table
\* and failed; the table holds the initial values
C25_Witness ==
    /\ call.op = "load"
    /\ call.rc = StorageError_FAILED
    /\ Len(call.read) = 1
    /\ pc = "live"
    /\ table.m_ctlBytes[0] = 0
    /\ table.m_ctlBytes[5] = 250

\* C26: persistence round trip: after a save() that returned NONE and
\* calls of set and setToInitialValues after it, a load() whose storage
\* returns NONE leaves the bytes [0, persistentSize) as they were at the
\* save() and every byte of [persistentSize, totalSize) 0.
C26_PersistenceRoundTrip ==
    (call.op = "load" /\ call.rc = StorageError_NONE /\ saved.valid)
    => /\ pc = "live"
       /\ FirstBytes(table.m_ctlBytes, table.m_numPersistentBytes)
              = saved.data
       /\ \A i \in table.m_numPersistentBytes..(table.m_numCtlBytes - 1) :
              table.m_ctlBytes[i] = 0

\* C26 witness: a fresh table of ten bytes saved, its bytes 2 and 3 then
\* set (the port was told the rate of baud byte 85), and loaded back
C26_Witness ==
    /\ call.op = "load"
    /\ call.rc = StorageError_NONE
    /\ call.made = 2
    /\ saved.valid
    /\ saved.data = [i \in 1..5 |-> 85]
    /\ port = <<23255>>
    /\ table.m_ctlBytes[2] = 85
    /\ table.m_ctlBytes[9] = 0

\* C27: save() hands the storage offset 0, the length persistentSize and
\* the bytes [0, persistentSize) the table holds, returns the status of the
\* storage (NONE or FAILED) as it is, and changes no byte of the table
\* whether the storage succeeds or fails.
C27_SaveFrame ==
    [][call'.op = "save"
       => /\ call'.storage.offset = 0
          /\ call'.storage.numBytes = table.m_numPersistentBytes
          /\ FirstBytes(call'.storage.data, call'.storage.numBytes)
                 = FirstBytes(table.m_ctlBytes, table.m_numPersistentBytes)
          /\ call'.ret = call'.storage.rc
          /\ call'.ret \in {StorageError_NONE, StorageError_FAILED}
          /\ table' = table
          /\ pc' = "live"]_vars

\* C27 witness: a save of a table changed by a set failed after the storage
\* wrote part of the bytes
C27_Witness ==
    /\ call.op = "save"
    /\ call.ret = StorageError_FAILED
    /\ Len(storage) = 1
    /\ table.m_ctlBytes[0] = 200

\* the positions of the events ev in the steps e of a call
Positions(e, ev) == {i \in DOMAIN e : e[i].ev = ev}

\* C28: hook ordering: every typed get that passes its assertion invokes
\* populateEntry exactly once, with the offset passed to the get, before it
\* reads any byte of the field; every typed set that passes its assertion
\* invokes entryModified exactly once, after it has written every byte of
\* the field.
C28_HookOrdering ==
    /\ (call.op = "get" /\ pc = "live")
       => LET e == call.events IN
              /\ Positions(e, "populateEntry") = {1}
              /\ e[1].offset = call.offset
              /\ Positions(e, "read") = 2..Len(e)
              /\ {e[i].offset : i \in 2..Len(e)}
                     = call.offset..(call.offset + call.type.w - 1)
    /\ (call.op = "set" /\ call.events # << >>)
       => LET e == call.events IN
              /\ Cardinality(Positions(e, "entryModified")) = 1
              /\ Positions(e, "write") = 1..call.type.w
              /\ Positions(e, "entryModified") = {call.type.w + 1}
              /\ {e[i].offset : i \in 1..call.type.w}
                     = call.offset..(call.offset + call.type.w - 1)

\* C28 witness: a 4-byte get at offset 6 of a table of ten bytes: the hook,
\* then the four reads
C28_Witness ==
    /\ call.op = "get"
    /\ call.type.w = 4
    /\ call.offset = 6
    /\ pc = "live"
    /\ Len(call.events) = 5

(***************************************************************************)
(* The baud byte written                                                   *)
(***************************************************************************)
\* the types of one byte
ByteTypes == {T \in Types : T.w = 1}

\* table.set<T>(Offset::BAUD, v), the first call on a table
SetBaud(T, v) ==
    /\ call = NoCall
    /\ Set(T, Offset_BAUD, <<v>>)

NextBaud == \E T \in ByteTypes, v \in Byte : SetBaud(T, v)

SpecBaud == InitTable /\ [][NextBaud]_vars

\* C29: for every byte value v in 0..255, a 1-byte set of v at the baud
\* offset 0x04 that completes notifies the port exactly once, with the bit
\* rate floor(2,000,000 / (v + 1)), v + 1 taken without 8-bit wrap-around:
\* 7812 for v = 255 and 1,000,000 for v = 0x01.
C29_BaudNotification ==
    [][(/\ call'.op = "set"
        /\ call'.type.w = 1
        /\ call'.offset = 4
        /\ pc' = "live")
       => /\ port' = Append(port, 2000000 \div (call'.val[1] + 1))
          /\ (call'.val[1] = 255 => port'[Len(port')] = 7812)
          /\ (call'.val[1] = 1 => port'[Len(port')] = 1000000)
          /\ Cardinality(Positions(call'.events, "setBaudRate")) = 1]_vars

\* C29 witness: the baud byte set to 255, the port told 7812
C29_Witness ==
    /\ call.op = "set"
    /\ call.offset = 4
    /\ call.val = <<255>>
    /\ pc = "live"
    /\ table.m_ctlBytes[4] = 255
    /\ port = <<7812>>

\* C30: entryModified is invoked with the offset of the field that was
\* modified, the starting offset passed to set, for 1-byte, 2-byte and
\* 4-byte sets alike.
C30_HookGetsStartOffset ==
    call.op = "set"
    => \A i \in Positions(call.events, "entryModified") :
           call.events[i].offset = call.offset

\* C40: accessors touch only the addressed field: a set of width w at
\* offset o that passes its assertion changes no table byte outside
\* [o, o + w), a set that fails it changes none, and a get of any width
\* changes no table byte.
C40_AccessorFrame ==
    [][/\ call'.op = "set"
          => \A i \in DOMAIN table.m_ctlBytes :
                 (i < call'.offset \/ i >= call'.offset + call'.type.w)
                 => table'.m_ctlBytes[i] = table.m_ctlBytes[i]
       /\ call'.op = "set" => DOMAIN table'.m_ctlBytes = DOMAIN table.m_ctlBytes
       /\ call'.op = "get" => table' = table]_vars

\* C40 witness: a 2-byte set at offset 4 of a table of ten bytes changed
\* bytes 4 and 5 and left the bytes around them as the caller's memory held
\* them
C40_Witness ==
    /\ call.op = "set"
    /\ call.type.w = 2
    /\ call.offset = 4
    /\ table.m_numCtlBytes = 10
    /\ table.m_ctlBytes[4] = 102
    /\ table.m_ctlBytes[5] = 85
    /\ table.m_ctlBytes[3] = 85
    /\ table.m_ctlBytes[6] = 85
    /\ call.made = 1

\* C38: no spurious baud notification: a set of width w at offset o whose
\* written bytes [o, o + w) do not contain the baud offset 0x04 never makes
\* the port's setBaudRate be called.
C38_NoSpuriousBaud ==
    [][(/\ call'.op = "set"
        /\ (call'.offset > 4 \/ call'.offset + call'.type.w <= 4))
       => /\ port' = port
          /\ Positions(call'.events, "setBaudRate") = {}]_vars

\* C39: no missed baud notification: every set that completes and whose
\* written bytes [o, o + w) contain the baud offset 0x04 notifies the port,
\* and so does every setToInitialValues() and load() that completes on a
\* table holding that byte: the bit rate last passed to setBaudRate is
\* floor(2,000,000 / (byte at 0x04 + 1)).
C39_NoMissedBaud ==
    [][(/\ pc' = "live"
        /\ table.m_numCtlBytes > 4
        /\ \/ /\ call'.op = "set"
              /\ call'.offset <= 4
              /\ call'.offset + call'.type.w > 4
           \/ /\ call'.op \in {"setToInitialValues", "load"}
              /\ call'.made = call.made + 1)
       => /\ Len(port') = Len(port) + 1
          /\ port'[Len(port')]
                 = 2000000 \div (table'.m_ctlBytes[4] + 1)]_vars

(***************************************************************************)
(* The construction of a control table                                     *)
(***************************************************************************)
\* the numPersistentBytes a table of size bytes is constructed with: none,
\* a part, all of the table, and more than the table holds
PersistentSizes(size) == {0, size \div 2, size, size + 1}

\* no table constructed yet
InitNoTable ==
    /\ packet = Packet(0, Buffer(0, 0))
    /\ peer = Packet(0, Buffer(0, 0))
    /\ NothingFed
    /\ pc = "new"

\* IControlTable(numCtlBytes, numPersistentBytes, ctlBytes, storage, port),
\* ctlBytes being null or the caller's numCtlBytes bytes: the constructor
\* asserts that ctlBytes is not null and nothing else
NewTable(numCtlBytes, numPersistentBytes, null) ==
    /\ pc = "new"
    /\ \E fill \in BufFill :
           table' = [m_numCtlBytes |-> numCtlBytes,
                     m_numPersistentBytes |-> numPersistentBytes,
                     m_ctlBytes |-> IF null THEN << >>
                                    ELSE Buffer(numCtlBytes, fill)]
    /\ pc' = IF null THEN "aborted" ELSE "live"
    /\ call' = [op |-> "IControlTable", null |-> null, made |-> 0]
    /\ UNCHANGED <<port, storage, saved, tableFrame>>

NextCtor ==
    \/ \E size \in TableSizes, null \in BOOLEAN :
           \E persistent \in PersistentSizes(size) :
               NewTable(size, persistent, null)
    \/ \E a \in StoreSets : Set(a.T, a.offset, a.val)
    \/ Load
    \/ Save

SpecCtor == InitNoTable /\ [][NextCtor]_vars

\* C31: every constructed table has persistentSize <= totalSize, so load()
\* and save() hand the storage only bytes inside the table's buffer
\* [0, totalSize).
C31_PersistentWithinTable ==
    pc = "live"
    => /\ table.m_numPersistentBytes <= table.m_numCtlBytes
       /\ call.op = "save"
          => call.storage.offset + call.storage.numBytes
                 <= table.m_numCtlBytes
       /\ call.op = "load" => Len(call.read) <= table.m_numCtlBytes

(***************************************************************************)
(* The parser, byte by byte                                                *)
(***************************************************************************)
\* the byte and the result of the call of processByte just made
FedByte == wire'[Len(wire')]
FedErr == errs'[Len(errs')]

\* C37: while the codec hunts for a frame start (any byte in IDLE and in
\* FF_1ST_RCVD, a 0xFF byte in FF_2ND_RCVD) processByte changes none of
\* id(), length(), command(), checksum() and the parameter buffer and
\* returns NOT_DONE: a frame parsed before stays inspectable until the byte
\* captured as the next id.
C37_HuntingKeepsFrame ==
    [][(\/ packet.m_state \in {State_IDLE, State_FF_1ST_RCVD}
        \/ (packet.m_state = State_FF_2ND_RCVD /\ FedByte = 255))
       => /\ packet'.m_id = packet.m_id
          /\ packet'.m_length = packet.m_length
          /\ packet'.m_cmd = packet.m_cmd
          /\ packet'.m_checksum = packet.m_checksum
          /\ packet'.m_params = packet.m_params
          /\ packet'.m_state \in {State_IDLE, State_FF_1ST_RCVD,
                                   State_FF_2ND_RCVD}
          /\ FedErr = Error_NOT_DONE]_vars

\* C37 witness: the frame FF FF 02 03 02 03 F5 was parsed into a codec of
\* capacity 1, then three 0xFF followed: the fields are still those of the
\* frame
C37_Witness ==
    /\ packet.m_state = State_FF_2ND_RCVD
    /\ wire = <<255, 255, 255>>
    /\ packet.m_maxParams = 1
    /\ packet.m_id = 2
    /\ packet.m_length = 3
    /\ packet.m_cmd = 2
    /\ packet.m_checksum = 245
    /\ packet.m_params[0] = 3

\* C33: once the id byte is captured the next byte is stored as the length,
\* the next as the command and the numParams() bytes after it are taken as
\* parameters, whatever their values: a 0xFF in length, command, parameter
\* or checksum position is taken literally, adds to the running checksum
\* like any other byte and never restarts the synchronisation.
C33_LiteralAfterId ==
    [][/\ packet.m_state = State_ID_RCVD
          => /\ packet'.m_length = FedByte
             /\ packet'.m_checksum = Add8(packet.m_checksum, FedByte)
             /\ packet'.m_state = State_LENGTH_RCVD
       /\ packet.m_state = State_LENGTH_RCVD
          => /\ packet'.m_cmd = FedByte
             /\ packet'.m_checksum = Add8(packet.m_checksum, FedByte)
             /\ packet'.m_state = State_COMMAND_RCVD
       /\ (/\ packet.m_state = State_COMMAND_RCVD
           /\ packet.m_paramIdx < numParams(packet))
          => /\ packet'.m_paramIdx = packet.m_paramIdx + 1
             /\ packet'.m_checksum = Add8(packet.m_checksum, FedByte)
             /\ packet'.m_state = State_COMMAND_RCVD
             /\ packet.m_paramIdx < packet.m_maxParams
                => packet'.m_params[packet.m_paramIdx] = FedByte
       /\ (/\ packet.m_state = State_COMMAND_RCVD
           /\ packet.m_paramIdx >= numParams(packet))
          => /\ packet'.m_state = State_IDLE
             /\ packet'.m_checksum = FedByte
             /\ FedErr # Error_NOT_DONE
             /\ (FedErr = Error_CHECKSUM)
                    = (FedByte # Not8(packet.m_checksum))]_vars

\* C33 witness: after FF FF 02 the bytes FF FF FF FF were taken as length
\* 255, command 255 and two parameters 255 of a codec of capacity 2
C33_Witness ==
    /\ wire = <<255, 255, 2, 255, 255, 255, 255>>
    /\ packet.m_state = State_COMMAND_RCVD
    /\ packet.m_maxParams = 2
    /\ packet.m_id = 2
    /\ packet.m_length = 255
    /\ packet.m_cmd = 255
    /\ packet.m_paramIdx = 2
    /\ packet.m_params = [i \in 0..1 |-> 255]
    /\ packet.m_checksum = 254

\* the place in wire of the byte on which the frame's result is due: the
\* (max(L, 2) + 1)-th byte after the id byte
ResultDue(w) ==
    LeadFF(w) + 1
    + (IF WireLength(w) > 2 THEN WireLength(w) ELSE 2) + 1

\* C34: frame extent: after the id byte and a length byte L the codec takes
\* exactly max(L - 2, 0) bytes as parameters, a length byte of 0 or 1 being
\* taken as no parameters and the byte right after the command checked as
\* the checksum against a sum that includes L: the result other than
\* NOT_DONE is returned on exactly the (max(L, 2) + 1)-th byte after the id
\* byte, so within 256 bytes of the id.
C34_FrameExtent ==
    /\ (/\ LeadFF(wire) >= 2
        /\ Len(wire) >= LeadFF(wire) + 2)
       => /\ Len(wire) <= ResultDue(wire)
          /\ ResultDue(wire) <= LeadFF(wire) + 1 + 256
          /\ \A i \in 1..Len(errs) :
                 (errs[i] # Error_NOT_DONE) = (i = ResultDue(wire))
          /\ Len(wire) = ResultDue(wire)
             => /\ packet.m_paramIdx = WireCount(wire)
                /\ (LastErr = Error_CHECKSUM)
                       = (WireChecksum(wire) # FrameChecksum(wire))
    /\ packet.m_state = State_ID_RCVD
       => \A L \in {0, 1}, c \in {0, 255} :
              LET q == After(packet, <<L, c>>)
                  sum == Not8(Add8(Add8(packet.m_checksum, L), c))
              IN /\ q.m_state = State_COMMAND_RCVD
                 /\ numParams(q) = 0
                 /\ \A b \in {sum, Not8(sum)} :
                        LET r == processByte(q, b) IN
                            /\ r.pkt.m_state = State_IDLE
                            /\ r.pkt.m_paramIdx = 0
                            /\ r.err = IF b = sum THEN Error_NONE
                                       ELSE Error_CHECKSUM

\* C34 witness: FF FF 02 00 02 FB, with the length byte 0, got NONE on the
\* third byte after the id
C34_Witness ==
    /\ wire = <<255, 255, 2, 0, 2, 251>>
    /\ errs[6] = Error_NONE
    /\ packet.m_state = State_IDLE
    /\ packet.m_length = 0
    /\ packet.m_paramIdx = 0

(***************************************************************************)
(* A frame parsed after another                                            *)
(***************************************************************************)
\* the frames parsed first: EarlierFrame, which fits a capacity of 2 and is
\* too long for a smaller one, and the same frame with a wrong checksum
EarlierStreams == {EarlierFrame, <<255, 255, 1, 4, 2, 43, 1, 0>>}

\* two codecs of one capacity; packet will parse a frame first
InitRecovery ==
    /\ \E cap \in 0..MaxCap, fill \in BufFill :
           /\ packet = Packet(cap, Buffer(cap, fill))
           /\ peer = packet
    /\ NothingFed
    /\ pc = "earlier"

\* parseData(s) on packet alone
Earlier(s) ==
    /\ pc = "earlier"
    /\ LET r == parseData(packet, s) IN
           /\ packet' = r.pkt
           /\ call' = [op |-> "parseData", arg |-> s, ret |-> r.err,
                       made |-> 0]
    /\ pc' = "stream"
    /\ UNCHANGED <<wire, errs, lastStore, peer, peerErrs, noise, line,
                   maxLen, fed, table, port, storage, saved>>

NextRecovery ==
    \/ \E s \in EarlierStreams : Earlier(s)
    \/ \E byte \in NextStreamBytes : Stream(byte)

SpecRecovery == InitRecovery /\ [][NextRecovery]_vars

\* C35: recovery: after processByte has returned NONE, CHECKSUM or
\* TOO_MUCH_DATA for a frame, every byte fed gets the result a fresh codec
\* gives it and leaves the state and, once a frame has started, the id,
\* length, command, index and checksum of a fresh codec; a well-formed
\* frame (FF FF sync, count within the capacity, right checksum) gets
\* NOT_DONE for all but its last byte and NONE on the last, with the fields
\* of the wire.
C35_Recovery ==
    (/\ pc = "stream"
     /\ call.op = "parseData"
     /\ call.ret # Error_NOT_DONE
     /\ fed > 0)
    => /\ LastErr = peerErrs[Len(peerErrs)]
       /\ packet.m_state = peer.m_state
       /\ (LeadFF(wire) >= 2 /\ Len(wire) > LeadFF(wire))
          => /\ packet.m_id = peer.m_id
             /\ packet.m_checksum = peer.m_checksum
             /\ Len(wire) >= LeadFF(wire) + 2
                => packet.m_length = peer.m_length
             /\ Len(wire) >= LeadFF(wire) + 3
                => /\ packet.m_cmd = peer.m_cmd
                   /\ packet.m_paramIdx = peer.m_paramIdx
                   /\ \A i \in 0..(packet.m_paramIdx - 1) :
                          i < packet.m_maxParams
                          => packet.m_params[i] = peer.m_params[i]
       /\ (/\ WholeFrame(wire)
           /\ WireLength(wire) >= 2
           /\ WireCount(wire) <= packet.m_maxParams
           /\ WireChecksum(wire) = FrameChecksum(wire))
          => /\ AllButLastNotDone
             /\ LastErr = Error_NONE
             /\ HeaderFromWire
             /\ BufferFromWire(WireCount(wire))
             /\ packet.m_checksum = WireChecksum(wire)

\* C35 witness: a codec of capacity 1 got TOO_MUCH_DATA for FF FF 01 04 02
\* 2B 01 CC and then NONE for FF FF 02 03 02 03 F5
C35_Witness ==
    /\ call.op = "parseData"
    /\ call.ret = Error_TOO_MUCH_DATA
    /\ packet.m_maxParams = 1
    /\ wire = <<255, 255, 2, 3, 2, 3, 245>>
    /\ LastErr = Error_NONE
    /\ packet.m_id = 2
    /\ packet.m_params[0] = 3

(***************************************************************************)
(* The indices of the parameter buffer that the senders read               *)
(***************************************************************************)
\* the indices i at which update_checksum() reads m_params[i]
UpdateChecksumReads(p) == 0..(numParams(p) - 1)

\* the indices idx at which data(n, buf) reads m_params[idx], n being its
\* maxLen: the loop runs while idx < numParams(), returns at
\* idx >= m_maxParams and reads while there is room, len being the header
\* bytes written plus idx
DataReads(p, n) ==
    {idx \in 0..(numParams(p) - 1) :
        /\ idx < p.m_maxParams
        /\ Min(5, n) + idx < n}

\* C36: in every reachable Packet state, update_checksum() and data() read
\* the parameter buffer only at indices below the capacity.
C36_ReadsWithinCapacity ==
    pc = "live"
    => /\ \A i \in UpdateChecksumReads(packet) : i < packet.m_maxParams
       /\ \A n \in 0..(MaxLen + 5) :
              \A i \in DataReads(packet, n) : i < packet.m_maxParams

(***************************************************************************)
(* The transition table of the specification, and processByte against it   *)
(***************************************************************************)
\* the state of the table that a state of the parser stands for
AbsState(st) ==
    CASE st = State_IDLE -> "IDLE"
      [] st = State_FF_1ST_RCVD -> "SAW_ONE_FF"
      [] st = State_FF_2ND_RCVD -> "SAW_TWO_FF"
      [] st = State_ID_RCVD -> "GOT_ID"
      [] st = State_LENGTH_RCVD -> "GOT_LENGTH"
      [] st = State_COMMAND_RCVD -> "READING_BODY"

\* the codec of the table that a Packet stands for
Abs(p) ==
    [state |-> AbsState(p.m_state),
     id |-> p.m_id,
     length |-> p.m_length,
     command |-> p.m_cmd,
     checksum |-> p.m_checksum,
     paramIndex |-> p.m_paramIdx,
     parameters |-> p.m_params,
     capacity |-> p.m_maxParams]

\* what a row of the table leaves: the codec and the result
Row(a, result) == [codec |-> a, result |-> result]

\* the finalize step: computed = bitwiseNot(runningSum); NONE or
\* TOO_MUCH_DATA when it equals the received byte, else CHECKSUM with the
\* register overwritten by the received byte
TableFinalize(a, byte) ==
    LET computed == Not8(a.checksum) IN
    IF computed = byte
    THEN Row([a EXCEPT !.checksum = computed, !.state = "IDLE"],
             IF a.paramIndex <= a.capacity
             THEN Error_NONE ELSE Error_TOO_MUCH_DATA)
    ELSE Row([a EXCEPT !.checksum = byte, !.state = "IDLE"], Error_CHECKSUM)

\* the row of the table for codec a and input byte, declaredParamCount being
\* given; "NO_ROW" when no row of the table applies
TableStep(a, byte, declaredParamCount) ==
    CASE a.state = "IDLE" ->
           Row([a EXCEPT !.state = IF byte = 255 THEN "SAW_ONE_FF" ELSE "IDLE"],
               Error_NOT_DONE)
      [] a.state = "SAW_ONE_FF" ->
           Row([a EXCEPT !.state = IF byte = 255 THEN "SAW_TWO_FF" ELSE "IDLE"],
               Error_NOT_DONE)
      [] a.state = "SAW_TWO_FF" ->
           IF byte = 255
           THEN Row(a, Error_NOT_DONE)
           ELSE Row([a EXCEPT !.id = byte, !.checksum = byte,
                              !.state = "GOT_ID"],
                    Error_NOT_DONE)
      [] a.state = "GOT_ID" ->
           Row([a EXCEPT !.length = byte,
                         !.checksum = Add8(a.checksum, byte),
                         !.state = "GOT_LENGTH"],
               Error_NOT_DONE)
      [] a.state = "GOT_LENGTH" ->
           Row([a EXCEPT !.command = byte,
                         !.checksum = Add8(a.checksum, byte),
                         !.paramIndex = 0,
                         !.state = "READING_BODY"],
               Error_NOT_DONE)
      [] a.state = "READING_BODY" ->
           IF a.paramIndex < declaredParamCount
           THEN Row([a EXCEPT !.checksum = Add8(a.checksum, byte),
                              !.parameters =
                                  IF a.paramIndex < a.capacity
                                  THEN [a.parameters
                                            EXCEPT ![a.paramIndex] = byte]
                                  ELSE a.parameters,
                              !.paramIndex = a.paramIndex + 1],
                    Error_NOT_DONE)
           ELSE IF a.paramIndex = declaredParamCount
           THEN TableFinalize(a, byte)
           ELSE Row(a, "NO_ROW")

\* the input bytes the rows of the table tell apart in the state of p: 0xFF,
\* the checksum that matches, and others
ProbeBytes(p) == {0, 1, 2, 254, 255, Not8(p.m_checksum)}

\* processByte(p, byte) takes the step of the table
Refines(p, byte, declaredParamCount) ==
    LET r == processByte(p, byte)
        t == TableStep(Abs(p), byte, declaredParamCount)
    IN  /\ Abs(r.pkt) = t.codec
        /\ r.err = t.result

\* C32 as stated: with declaredParamCount = length - 2, processByte takes
\* the step of the table in every state and for every input byte.
C32_RefinesTable ==
    \A byte \in ProbeBytes(packet) :
        Refines(packet, byte, packet.m_length - 2)

\* C32: processByte refines the transition table of the specification with
\* declaredParamCount = length - 2 for a length above 2 and 0 for the
\* lengths 0, 1 and 2: in every state and for every input byte it takes the
\* same next state, makes the same updates of id, length, command, running
\* checksum, paramIndex and stored parameters, and returns the same result.
C32_RefinesClampedTable ==
    \A byte \in ProbeBytes(packet) :
        Refines(packet, byte,
                IF packet.m_length <= 2 THEN 0 ELSE packet.m_length - 2)

\* C32 witness: the length byte 0 was taken and the byte after the command
\* finalized the frame
C32_Witness ==
    /\ wire = <<255, 255, 2, 0, 2, 251>>
    /\ LastErr = Error_NONE
    /\ packet.m_length = 0
    /\ packet.m_state = State_IDLE

====
